---- MODULE Spec2Model ----
(***************************************************************************)
(* Model of the train-chimp fine-tuning workers.                           *)
(*                                                                         *)
(* The variable `program` names the entry point the process runs:          *)
(*   "aws"     the queue/table worker of src/backend/aws/                  *)
(*             finetuning_service.py (FineTuningService with a             *)
(*             CloudflareClient or a SupabaseClient as backend);           *)
(*   "runpod"  the single-job worker of src/runpod/finetuning_service.py;  *)
(*   "unsloth" the single-job worker of                                    *)
(*             src/runpod/finetuning_service_unsloth.py;                   *)
(*   "error_handler" the script src/runpod/error_handler.py;               *)
(*   "inference" the service of src/backend/aws/inference_service.py;      *)
(*   "log_error_and_quit" the script                                       *)
(*             src/backend/runpod/log_error_and_quit.py.                   *)
(* SinkSpec and SlotSpec exercise the status-sink clients and the model    *)
(* slot on their own (program = "clients", "slot_queue", "slot_single");   *)
(* ParamsSpec does the same for the training parameters and their          *)
(* defaults (program = "params_aws", "params_runpod", "params_unsloth").   *)
(* PoolSpec has two queue/table workers on one queue table, StartupSpec    *)
(* the queue/table worker from main on; InferenceSpec and QuitSpec are the *)
(* inference service and the log_error_and_quit script.                    *)
(*                                                                         *)
(* One action per step of the worker that talks to the outside (a backend  *)
(* call, a model load, the training call, the sleep), so that the order of *)
(* the status writes, the ack and the model-slot release is visible.       *)
(* Every backend call may fail; the number of failures injected in one     *)
(* behaviour is bounded by MaxFaults, which keeps the histories finite     *)
(* without ever disabling a step of the program.                           *)
(***************************************************************************)
EXTENDS Integers, Sequences, FiniteSets, TLC

\* ------------------------------------------------------------------ bounds
MaxJobs == 2
MaxFaults == 1

\* ------------------------------------------------------------------ values
Workers == {"w1", "w2"}
MsgIds == 1..MaxJobs
BaseModels == {"base-7b", "base-13b"}
Backends == {"cloudflare", "supabase"}
\* A job record as the message body carries it. fine_tune reads job_id,
\* model_id, dataset_id, base_model and training_params by subscript (and run
\* reads job_id by subscript): `missing` names the required key the body
\* lacks, "none" when it has them all. A body that lacks one is read no
\* further, so its base model is immaterial.
Bodies == [missing : {"none"}, base_model : BaseModels]
              \cup {[missing |-> "training_params", base_model |-> "base-7b"]}
NoMsg == 0
NULL == 0

VARIABLES
    program,      \* which entry point runs
    backend,      \* which backend the deployment talks to
    queue,        \* job source: message/row id -> [state, missing, base_model]
    jobsTable,    \* status sink, jobs:   id -> [status, started_at, completed_at]
    modelsTable,  \* status sink, models: id -> [status, lora_adapter_url, updated_at]
    clock,        \* value the next datetime.now() / CURRENT_TIMESTAMP returns
    faultsLeft,   \* failures the environment may still inject
    pc,           \* per worker: position in __init__/run/fine_tune
    client,       \* per worker: self.client, set by __init__
    cf_client,    \* per worker: self.cf_client, the attribute run/fine_tune read
    models,       \* per worker: self.models (the base models resident)
    tokenizers,   \* per worker: self.tokenizers
    cur,          \* per worker: the delivery being processed and what happened to it
    statusLog,    \* history: per job id, the job statuses the worker wrote
    ackCalls,     \* history: per message id, the number of delete_job calls
    hub,          \* single-job workers: the model's record on the model hub
    sj,           \* single-job workers: the process (position, slot, locals)
    training_params,  \* the training parameters the job record carries
    hyper,        \* the hyperparameters the worker configures the training with
    boot,         \* per worker: main's credentials, __init__'s arguments, directories
    inf,          \* inference service: the app, its InferenceService, the last response
    quit          \* log_error_and_quit: the environment and the process

vars == <<program, backend, queue, jobsTable, modelsTable, clock, faultsLeft, pc,
          client, cf_client, models, tokenizers, cur, statusLog, ackCalls, hub, sj,
          training_params, hyper, boot, inf, quit>>

\* the entry point; the job's training parameters and what is made of them,
\* which only the configuration of the training touches; the inference
\* service, which only its endpoints touch; the process of the script
\* log_error_and_quit.py
cfgVars == <<program, training_params, hyper, inf, quit>>

\* those, and what only the start of the queue/table worker touches
progVars == <<cfgVars, boot>>

\* what the queue/table worker never touches, and what the single-job workers
\* never touch
spVars == <<progVars, hub, sj>>
awsVars == <<backend, queue, jobsTable, modelsTable, pc, client, cf_client, models,
             tokenizers, cur, statusLog, ackCalls>>

sinkVars == <<jobsTable, modelsTable, clock, statusLog>>
slotVars == <<models, tokenizers>>
objVars == <<client, cf_client>>

\* ----------------------------------------------------------------- helpers
\* lora_adapter_url when none was ever written (NULL / the empty string)
NoUrl == 0

\* `poll` is how this iteration's get_next_job ended: "job", "empty" (the
\* backend had none), "error" (the backend call raised), "none" (not called)
\* `archive` says whether the archive /tmp/<model_id>.zip that this delivery's
\* upload_model made is still on disk
NoCur == [msg |-> NoMsg, poll |-> "none", failed |-> "none", ret |-> "none",
          adapter_url |-> NoUrl, wfault |-> FALSE, resets |-> 0, acks |-> 0,
          loads |-> 0, archive |-> FALSE]

EmptyMsg == [state |-> "absent", missing |-> "none", base_model |-> "base-7b"]
PendingJobRow == [status |-> "pending", logs_url |-> NULL, started_at |-> NULL,
                  completed_at |-> NULL]
PendingModelRow == [status |-> "pending", lora_adapter_url |-> NoUrl, updated_at |-> NULL]
NoRow == [status |-> "none", logs_url |-> NULL, started_at |-> NULL,
          completed_at |-> NULL]
NoModelRow == [status |-> "none", lora_adapter_url |-> NoUrl, updated_at |-> NULL]

\* a dict without keys
EmptyDict == [k \in {} |-> NULL]

\* a job record without a training-parameters entry, and the hyperparameters
\* before the training is configured
NoParams == [present |-> FALSE, dict |-> EmptyDict]
NoHyper == [set |-> FALSE, raised |-> "none", values |-> EmptyDict]

\* the inference service before the first request: app has no
\* inference_service attribute
NoInf == [service |-> "absent", base_model_type |-> "base-7b",
          db |-> EmptyDict, loaded_loras |-> EmptyDict, lora_paths |-> EmptyDict,
          last |-> [endpoint |-> "none"]]

\* an environment variable that is not set
Unset == [set |-> FALSE, value |-> <<>>]

\* log_error_and_quit.py before it is run
NoQuit == [pc |-> "off", auto_terminate |-> Unset, metadata |-> "none",
           argv |-> FALSE, details_written |-> FALSE, instance_id |-> "unbound",
           terminate_requests |-> 0, raised |-> "none", exit_code |-> NULL]

\* the directories __init__ creates: data_dir, data_dir/datasets, data_dir/models
Dirs == {"data_dir", "datasets", "models"}

\* a process that has not read its environment nor called __init__: the
\* arguments of __init__ are unbound outside the call
NoBoot == [credentials |-> "unread", cloudflare_client |-> "unbound",
           supabase_client |-> "unbound", dirs |-> {}]

\* the job record of message m: its job_id and model_id are the message's id
JobId(m) == m
ModelId(m) == m

\* a faulty variant: upload_model returns the empty string
AdapterUrl_Empty(model_id) == NoUrl

\* the adapter URL upload_model returns for a model id (an f-string around the
\* model id, or the storage's public URL): never the empty string
AdapterUrl(model_id) == 100 + model_id

\* ------------------------------------------------- the backend clients
\* a faulty variant: the row is replaced by the arguments, omitted ones included
update_job_status_Overwrite(tbl, job_id, status, logs_url, started_at, completed_at) ==
    [tbl EXCEPT ![job_id] = [status |-> status, logs_url |-> logs_url,
                             started_at |-> started_at,
                             completed_at |-> completed_at]]

\* CloudflareClient.update_job_status / SupabaseClient.update_job_status:
\* the status is always written, logs_url and the timestamps only when one is
\* passed (`if logs_url:` ...: None and the empty string both count as omitted)
update_job_status(tbl, job_id, status, logs_url, started_at, completed_at) ==
    [tbl EXCEPT ![job_id] =
        [status |-> status,
         logs_url |-> IF logs_url # NULL THEN logs_url ELSE @.logs_url,
         started_at |-> IF started_at # NULL THEN started_at ELSE @.started_at,
         completed_at |-> IF completed_at # NULL THEN completed_at
                          ELSE @.completed_at]]

\* a faulty variant: an omitted URL clears the stored one
update_model_status_Overwrite(tbl, model_id, status, lora_adapter_url, now) ==
    [tbl EXCEPT ![model_id] = [status |-> status,
                               lora_adapter_url |-> lora_adapter_url,
                               updated_at |-> now]]

\* CloudflareClient.update_model_status / SupabaseClient.update_model_status:
\* the URL is written only when one is passed, updated_at always
update_model_status(tbl, model_id, status, lora_adapter_url, now) ==
    [tbl EXCEPT ![model_id] =
        [status |-> status,
         lora_adapter_url |-> IF lora_adapter_url # NoUrl THEN lora_adapter_url
                              ELSE @.lora_adapter_url,
         updated_at |-> now]]

PendingMsgs(q) == {m \in MsgIds : q[m].state = "pending"}

\* a faulty variant: the rows are ordered the other way round
Oldest_Newest(S) == CHOOSE m \in S : \A n \in S : m >= n

\* .order("created_at").limit(1): rows are created in id order
Oldest(S) == CHOOSE m \in S : \A n \in S : m <= n

\* a faulty variant: a failed backend call is not turned into None: the messages of
\* the last good response are used
get_next_job_Stale(kind, q, ok) ==
    IF PendingMsgs(q) = {} THEN {}
    ELSE IF kind = "supabase" THEN {Oldest(PendingMsgs(q))}
    ELSE PendingMsgs(q)

\* get_next_job: the messages the call may return, {} standing for None. When
\* the backend call fails (ok = FALSE) the except clause returns None. The
\* table-backed source returns the oldest pending row (rows are created in id
\* order); the queue returns the first message of whatever batch it hands out.
get_next_job(kind, q, ok) ==
    IF ~ok \/ PendingMsgs(q) = {} THEN {}
    ELSE IF kind = "supabase" THEN {Oldest(PendingMsgs(q))}
    ELSE PendingMsgs(q)

\* delete_job: the queue deletes the message, the table marks the row processed
delete_job(kind, q, m) ==
    [q EXCEPT ![m].state = IF kind = "supabase" THEN "processed" ELSE "deleted"]

\* one call to the outside: it succeeds, or fails while a failure is left
Outcome(ok) ==
    /\ ok \/ faultsLeft > 0
    /\ faultsLeft' = IF ok THEN faultsLeft ELSE faultsLeft - 1

Goto(w, label) == pc' = [pc EXCEPT ![w] = label]

\* ------------------------------------------------------------ environment
\* A job is created externally: its rows in the status sink start pending and
\* its message is put on the queue. Ids are handed out in order.
Submit(body) ==
    /\ program = "aws"
    /\ \E m \in MsgIds :
          /\ queue[m].state = "absent"
          /\ \A n \in MsgIds : n < m => queue[n].state # "absent"
          /\ queue' = [queue EXCEPT ![m] = [state |-> "pending",
                                            missing |-> body.missing,
                                            base_model |-> body.base_model]]
          /\ jobsTable' = [jobsTable EXCEPT ![JobId(m)] = PendingJobRow]
          /\ modelsTable' = [modelsTable EXCEPT ![ModelId(m)] = PendingModelRow]
          /\ statusLog' = [statusLog EXCEPT ![JobId(m)] = <<"pending">>]
    /\ UNCHANGED <<spVars, backend, clock, faultsLeft, pc, objVars, slotVars, cur, ackCalls>>

\* ------------------------------------------------- FineTuningService (aws)
\* main, lines 629-632: supabase_client is a SupabaseClient when SUPABASE_URL
\* and SUPABASE_KEY are both set, None otherwise
supabase_client_of(credentials) == IF credentials = "present" THEN "supabase" ELSE "None"

\* main, lines 626-627: the credentials are read from the environment
MainEnv(w) ==
    /\ program = "aws"
    /\ backend = "supabase"
    /\ pc[w] = "new"
    /\ boot[w].credentials = "unread"
    /\ \E supabase_url \in BOOLEAN, supabase_key \in BOOLEAN :
          boot' = [boot EXCEPT ![w].credentials =
                      IF supabase_url /\ supabase_key THEN "present" ELSE "missing"]
    /\ UNCHANGED <<cfgVars, hub, sj, awsVars, clock, faultsLeft>>

\* __init__(cloudflare_client, supabase_client): each argument is None or a
\* client object of the deployment's backend
\* a faulty variant: two clients are accepted, the first one is used
Construct_AcceptsBoth(w, cloudflare_client, supabase_client) ==
    /\ pc[w] = "new"
    /\ boot' = [boot EXCEPT ![w].cloudflare_client = cloudflare_client,
                            ![w].supabase_client = supabase_client]
    /\ IF cloudflare_client = "None" /\ supabase_client = "None"
          THEN /\ Goto(w, "ValueError")
               /\ UNCHANGED client
       ELSE /\ client' = [client EXCEPT ![w] =
                    IF cloudflare_client # "None" THEN cloudflare_client
                    ELSE supabase_client]
            /\ Goto(w, "makedirs")
    /\ UNCHANGED <<cfgVars, hub, sj, backend, queue, sinkVars, faultsLeft, cf_client,
                   slotVars, cur, ackCalls>>

\* When main has read the environment the call is main's call, line 644:
\* FineTuningService(supabase_client), the one argument given by position.
\* Lines 351-355: the check of the two arguments, then self.client.
Construct(w, cloudflare_client, supabase_client) ==
    /\ pc[w] = "new"
    /\ boot[w].credentials # "unread" =>
          /\ cloudflare_client = supabase_client_of(boot[w].credentials)
          /\ supabase_client = "None"
    /\ boot' = [boot EXCEPT ![w].cloudflare_client = cloudflare_client,
                            ![w].supabase_client = supabase_client]
    /\ IF cloudflare_client # "None" /\ supabase_client # "None"
          THEN /\ Goto(w, "ValueError")
               /\ UNCHANGED client
       ELSE IF cloudflare_client = "None" /\ supabase_client = "None"
          THEN /\ Goto(w, "ValueError")
               /\ UNCHANGED client
       ELSE /\ client' = [client EXCEPT ![w] =
                    IF cloudflare_client # "None" THEN cloudflare_client
                    ELSE supabase_client]
            /\ Goto(w, "makedirs")
    /\ UNCHANGED <<cfgVars, hub, sj, backend, queue, sinkVars, faultsLeft, cf_client,
                   slotVars, cur, ackCalls>>

\* __init__, lines 356-365: the three os.makedirs calls, any of which may
\* raise OSError, and the empty model and tokenizer dicts; the arguments are
\* gone when the call has returned
MakeDirs(w) ==
    /\ pc[w] = "makedirs"
    /\ \E ok \in BOOLEAN, made \in {{}, {"data_dir"}, {"data_dir", "datasets"}} :
          /\ Outcome(ok)
          /\ IF ok
                THEN /\ boot' = [boot EXCEPT ![w].dirs = Dirs,
                                             ![w].cloudflare_client = "unbound",
                                             ![w].supabase_client = "unbound"]
                     /\ Goto(w, "constructed")
             ELSE /\ boot' = [boot EXCEPT ![w].dirs = made]
                  /\ Goto(w, "OSError")
    /\ UNCHANGED <<cfgVars, hub, sj, backend, queue, sinkVars, objVars, slotVars, cur,
                   ackCalls>>

\* run and fine_tune reach the backend through self.cf_client, an attribute
\* __init__ never assigns: it exists only if the embedding code sets it on the
\* constructed object
AttachCfClient(w) ==
    /\ pc[w] = "constructed"
    /\ cf_client[w] = "unset"
    /\ cf_client' = [cf_client EXCEPT ![w] = client[w]]
    /\ UNCHANGED <<spVars, backend, queue, sinkVars, faultsLeft, pc, client, slotVars, cur,
                   ackCalls>>

\* run(): enter the polling loop
RunStart(w) ==
    /\ pc[w] = "constructed"
    /\ Goto(w, "poll")
    /\ UNCHANGED <<spVars, backend, queue, sinkVars, faultsLeft, objVars, slotVars, cur,
                   ackCalls>>

SetCur(w, c) == cur' = [cur EXCEPT ![w] = c]

\* a faulty variant: the exception leaves the loop and run() ends
OnLoopException_Exit == "exited"

\* run, lines 604-608: an exception that reaches the loop is logged, and the
\* loop goes on to its sleep
OnLoopException == "sleep"

\* run(), lines 575-595: one poll of the job source, down to the entry of
\* fine_tune's first backend call. An exception anywhere in it is caught by
\* the loop's except clause and the worker goes to sleep.
Poll(w) ==
    /\ pc[w] = "poll"
    /\ IF cf_client[w] = "unset"
          THEN \* self.cf_client raises AttributeError
               /\ SetCur(w, [NoCur EXCEPT !.failed = "AttributeError"])
               /\ Goto(w, OnLoopException)
               /\ UNCHANGED faultsLeft
       ELSE \E ok \in BOOLEAN :
               /\ Outcome(ok)
               /\ IF get_next_job(cf_client[w], queue, ok) = {}
                     THEN \* `if job:` is false
                          /\ SetCur(w, [NoCur EXCEPT !.poll =
                                            IF ok THEN "empty" ELSE "error"])
                          /\ Goto(w, "sleep")
                  ELSE \E m \in get_next_job(cf_client[w], queue, ok) :
                          IF queue[m].missing # "none"
                            THEN \* job_data[...] raises KeyError, in run or
                                 \* at the top of fine_tune, outside its try
                                 /\ SetCur(w, [NoCur EXCEPT !.msg = m,
                                                   !.poll = "job",
                                                   !.failed = "KeyError",
                                                   !.ret = "raised"])
                                 /\ Goto(w, OnLoopException)
                          ELSE /\ SetCur(w, [NoCur EXCEPT !.msg = m,
                                                         !.poll = "job"])
                               /\ Goto(w, "mark_running")
    /\ UNCHANGED <<spVars, backend, queue, sinkVars, objVars, slotVars, ackCalls>>

\* fine_tune, lines 457-464: started_at = now; update_job_status(running)
MarkRunning(w) ==
    /\ pc[w] = "mark_running"
    /\ clock' = clock + 1
    /\ \E ok \in BOOLEAN :
          /\ Outcome(ok)
          /\ IF ok
                THEN /\ jobsTable' = update_job_status(jobsTable, JobId(cur[w].msg),
                                                       "running", NULL, clock, NULL)
                     /\ UNCHANGED cur
             ELSE /\ SetCur(w, [cur[w] EXCEPT !.wfault = TRUE])
                  /\ UNCHANGED jobsTable
    /\ statusLog' = [statusLog EXCEPT ![JobId(cur[w].msg)] = Append(@, "running")]
    /\ Goto(w, "mark_training")
    /\ UNCHANGED <<spVars, backend, queue, modelsTable, objVars, slotVars, ackCalls>>

\* fine_tune, line 465: update_model_status(training)
MarkTraining(w) ==
    /\ pc[w] = "mark_training"
    /\ clock' = clock + 1
    /\ \E ok \in BOOLEAN :
          /\ Outcome(ok)
          /\ IF ok
                THEN /\ modelsTable' = update_model_status(modelsTable,
                                          ModelId(cur[w].msg), "training", NoUrl, clock)
                     /\ UNCHANGED cur
             ELSE /\ SetCur(w, [cur[w] EXCEPT !.wfault = TRUE])
                  /\ UNCHANGED modelsTable
    /\ Goto(w, "download")
    /\ UNCHANGED <<spVars, backend, queue, jobsTable, statusLog, objVars, slotVars, ackCalls>>

\* fine_tune, lines 468-473: download_dataset re-raises what goes wrong
Download(w) ==
    /\ pc[w] = "download"
    /\ \E ok \in BOOLEAN :
          /\ Outcome(ok)
          /\ IF ok
                THEN /\ Goto(w, "load")
                     /\ UNCHANGED cur
             ELSE /\ SetCur(w, [cur[w] EXCEPT !.failed = "download"])
                  /\ Goto(w, "fail_job")
    /\ UNCHANGED <<spVars, backend, queue, sinkVars, objVars, slotVars, ackCalls>>

\* load_base_model: the tokenizer is loaded unless cached, then the model;
\* `r` is what happens: "ok", or the load that raises
load_base_model(toks, mods, base, r) ==
    IF r = "tokenizer" /\ base \notin toks
      THEN [tokenizers |-> toks, models |-> mods, raised |-> TRUE]
    ELSE IF r = "model"
      THEN [tokenizers |-> toks \cup {base}, models |-> mods, raised |-> TRUE]
    ELSE [tokenizers |-> toks \cup {base}, models |-> mods \cup {base},
          raised |-> FALSE]

\* a faulty variant: the model stays in self.models
reset_model_Keep(mods, base) == mods

\* reset_model: drop the base model from self.models if it is there
reset_model(mods, base) == mods \ {base}

\* fine_tune, lines 475-480: load the base model unless it is resident
Load(w) ==
    /\ pc[w] = "load"
    /\ LET base == queue[cur[w].msg].base_model IN
       IF base \in models[w]
         THEN /\ Goto(w, "train")
              /\ UNCHANGED <<faultsLeft, slotVars, cur>>
       ELSE \E r \in {"ok", "tokenizer", "model"} :
              LET res == load_base_model(tokenizers[w], models[w], base, r) IN
              /\ Outcome(~res.raised)
              /\ tokenizers' = [tokenizers EXCEPT ![w] = res.tokenizers]
              /\ models' = [models EXCEPT ![w] = res.models]
              /\ IF res.raised
                    THEN /\ SetCur(w, [cur[w] EXCEPT !.failed = "load"])
                         /\ Goto(w, "fail_job")
                 ELSE /\ SetCur(w, [cur[w] EXCEPT !.loads = @ + 1])
                      /\ Goto(w, "train")
    /\ UNCHANGED <<spVars, backend, queue, sinkVars, objVars, ackCalls>>

\* fine_tune, lines 482-532: process_dataset, the LoRA and trainer set-up,
\* trainer.train() and save_pretrained: one blocking call that returns or raises
Train(w) ==
    /\ pc[w] = "train"
    /\ \E ok \in BOOLEAN :
          /\ Outcome(ok)
          /\ IF ok
                THEN /\ Goto(w, "upload")
                     /\ UNCHANGED cur
             ELSE /\ SetCur(w, [cur[w] EXCEPT !.failed = "train"])
                  /\ Goto(w, "fail_job")
    /\ UNCHANGED <<spVars, backend, queue, sinkVars, objVars, slotVars, ackCalls>>

\* upload_model of either client: make_archive, then in a try block the
\* transfer, os.remove(zip_path) and the URL; the except clause logs and
\* re-raises without removing anything. `r` is what happens: "ok", "put" (the
\* transfer raises, before os.remove) or "url" (get_public_url raises, after
\* os.remove: the table-backed client only, the queue client builds the URL
\* itself).
upload_model(kind, model_id, r) ==
    IF r = "put"
      THEN [raised |-> TRUE, url |-> NoUrl, archive |-> TRUE]
    ELSE IF r = "url" /\ kind = "supabase"
      THEN [raised |-> TRUE, url |-> NoUrl, archive |-> FALSE]
    ELSE [raised |-> FALSE, url |-> AdapterUrl(model_id), archive |-> FALSE]

\* fine_tune, lines 534-539: upload_model returns the adapter URL or re-raises
Upload(w) ==
    /\ pc[w] = "upload"
    /\ \E r \in {"ok", "put", "url"} :
          LET res == upload_model(cf_client[w], ModelId(cur[w].msg), r) IN
          /\ Outcome(~res.raised)
          /\ IF ~res.raised
                THEN /\ SetCur(w, [cur[w] EXCEPT !.adapter_url = res.url,
                                                 !.archive = res.archive])
                     /\ Goto(w, "mark_completed")
             ELSE /\ SetCur(w, [cur[w] EXCEPT !.failed = "upload",
                                              !.archive = res.archive])
                  /\ Goto(w, "fail_job")
    /\ UNCHANGED <<spVars, backend, queue, sinkVars, objVars, slotVars, ackCalls>>

\* a job status write of fine_tune's success or failure path
WriteJobStatus(w, status, completed_at, next) ==
    /\ \E ok \in BOOLEAN :
          /\ Outcome(ok)
          /\ IF ok
                THEN /\ jobsTable' = update_job_status(jobsTable, JobId(cur[w].msg),
                                                       status, NULL, NULL, completed_at)
                     /\ UNCHANGED cur
             ELSE /\ SetCur(w, [cur[w] EXCEPT !.wfault = TRUE])
                  /\ UNCHANGED jobsTable
    /\ statusLog' = [statusLog EXCEPT ![JobId(cur[w].msg)] = Append(@, status)]
    /\ Goto(w, next)
    /\ UNCHANGED <<spVars, backend, queue, modelsTable, objVars, slotVars, ackCalls>>

\* a model status write that ends fine_tune's try or except block: the
\* function's return value is fixed here, whether or not the write succeeds
WriteModelStatus(w, status, url, ret) ==
    /\ clock' = clock + 1
    /\ \E ok \in BOOLEAN :
          /\ Outcome(ok)
          /\ IF ok
                THEN /\ modelsTable' = update_model_status(modelsTable,
                                          ModelId(cur[w].msg), status, url, clock)
                     /\ SetCur(w, [cur[w] EXCEPT !.ret = ret])
             ELSE /\ SetCur(w, [cur[w] EXCEPT !.ret = ret, !.wfault = TRUE])
                  /\ UNCHANGED modelsTable
    /\ Goto(w, "reset")
    /\ UNCHANGED <<spVars, backend, queue, jobsTable, statusLog, objVars, slotVars, ackCalls>>

\* fine_tune, lines 541-548: completed_at = now; update_job_status(completed)
MarkCompleted(w) ==
    /\ pc[w] = "mark_completed"
    /\ clock' = clock + 1
    /\ WriteJobStatus(w, "completed", clock, "mark_ready")

\* fine_tune, lines 549-557: update_model_status(ready, adapter_url); return True
MarkReady(w) ==
    /\ pc[w] = "mark_ready"
    /\ WriteModelStatus(w, "ready", cur[w].adapter_url, "true")

\* fine_tune, lines 559-563: the except clause's update_job_status(failed)
MarkJobFailed(w) ==
    /\ pc[w] = "fail_job"
    /\ UNCHANGED clock
    /\ WriteJobStatus(w, "failed", NULL, "fail_model")

\* fine_tune, lines 564-566: update_model_status(failed); return False
MarkModelFailed(w) ==
    /\ pc[w] = "fail_model"
    /\ WriteModelStatus(w, "failed", NoUrl, "false")

\* a faulty variant: the ack is issued whatever fine_tune returned
AfterFineTune_AlwaysAck(ret) == "ack"

\* run, lines 595-599: what follows fine_tune's return value
AfterFineTune(ret) == IF ret = "true" THEN "ack" ELSE "sleep"

\* a faulty variant: fine_tune returns without releasing the model
Reset_Skipped(w) ==
    /\ pc[w] = "reset"
    /\ Goto(w, AfterFineTune(cur[w].ret))
    /\ UNCHANGED <<spVars, backend, queue, sinkVars, faultsLeft, objVars, slotVars, cur,
                   ackCalls>>

\* fine_tune, lines 567-569: the finally clause's reset_model(base_model),
\* then back in run with the return value
Reset(w) ==
    /\ pc[w] = "reset"
    /\ models' = [models EXCEPT ![w] =
                      reset_model(@, queue[cur[w].msg].base_model)]
    /\ SetCur(w, [cur[w] EXCEPT !.resets = @ + 1])
    /\ Goto(w, AfterFineTune(cur[w].ret))
    /\ UNCHANGED <<spVars, backend, queue, sinkVars, faultsLeft, objVars, tokenizers,
                   ackCalls>>

\* run, line 599: delete_job(message_id); its result is not looked at
Ack(w) ==
    /\ pc[w] = "ack"
    /\ \E ok \in BOOLEAN :
          /\ Outcome(ok)
          /\ queue' = IF ok THEN delete_job(cf_client[w], queue, cur[w].msg)
                      ELSE queue
    /\ ackCalls' = [ackCalls EXCEPT ![cur[w].msg] = @ + 1]
    /\ SetCur(w, [cur[w] EXCEPT !.acks = @ + 1])
    /\ Goto(w, "sleep")
    /\ UNCHANGED <<spVars, backend, sinkVars, objVars, slotVars>>

\* a faulty variant: the loop ends after one iteration instead of polling again
Sleep_Once(w) ==
    /\ pc[w] = "sleep"
    /\ Goto(w, "exited")
    /\ UNCHANGED <<spVars, backend, queue, sinkVars, faultsLeft, objVars, slotVars, cur,
                   ackCalls>>

\* run, line 608: time.sleep(poll_interval), then the next iteration
Sleep(w) ==
    /\ pc[w] = "sleep"
    /\ Goto(w, "poll")
    /\ UNCHANGED <<spVars, backend, queue, sinkVars, faultsLeft, objVars, slotVars, cur,
                   ackCalls>>

\* ------------------------------------------------- the single-job workers
\* The model's metadata on the hub, as the worker finds it: complete, absent,
\* or lacking the dataset or the base model
MetaKinds == {"ok", "empty", "no_datasets", "no_base_model"}

\* a tag "k:v" of the model card. A timestamp tag carries its time in t; an
\* error_details tag carries in n the number of characters of its message
\* (what was raised is in v); n is 0 in every other tag.
Tag(k, v, t) == [k |-> k, v |-> v, t |-> t, n |-> 0]

\* the characters error_handler.update_model_status keeps of an error message
ErrorDetailsLimit == 100

\* the lengths of the messages an exception or the handler's argument may
\* carry: that of the handler's default "Training failed", the limit itself,
\* one more
MessageLengths == {15, ErrorDetailsLimit, ErrorDetailsLimit + 1}

\* error_message[:100], of a message of `len` characters
Truncate(len, limit) == IF len > limit THEN limit ELSE len

\* the tag "error_details:" + text, for a text of `len` characters
ErrorDetailsTag(what, len) == [Tag("error_details", what, NULL) EXCEPT !.n = len]

\* the process before main() has done anything
FreshProcess == [pc |-> "off", model |-> "None", tokenizer |-> "None",
                 base_model |-> "unbound", card |-> "unbound", tags |-> <<>>,
                 ret |-> "none", failed |-> "none", wfault |-> FALSE,
                 resets |-> 0, loads |-> 0, error_message |-> NULL,
                 statuses |-> <<>>]

SjGoto(label) == sj' = [sj EXCEPT !.pc = label]

\* reset_model of the single-job services: `del self.model` removes the
\* attribute when a model (anything but None) is held
sj_reset_model(model) == IF model # "None" THEN "deleted" ELSE model

\* the finally clause of fine_tune / run: `if base_model: reset_model(...)`.
\* Reading base_model before the try block has assigned it raises
\* UnboundLocalError, which replaces a pending return value.
Finally(p) ==
    IF p.base_model = "unbound"
      THEN [p EXCEPT !.pc = "exited", !.ret = "raised"]
    ELSE IF p.base_model = "None"
      THEN [p EXCEPT !.pc = "exited"]
    ELSE [p EXCEPT !.pc = "exited", !.model = sj_reset_model(@),
                   !.resets = @ + 1]

\* main(): build the service and call run(model_id)
Launch ==
    /\ program \in {"runpod", "unsloth"}
    /\ sj.pc = "off"
    /\ sj' = [sj EXCEPT !.pc = "load_info"]
    /\ UNCHANGED <<progVars, hub, awsVars, clock, faultsLeft>>

\* runpod fine_tune, lines 174-190: model_info and the metadata checks. An
\* early `return False` still runs the finally clause.
RP_LoadInfo ==
    /\ program = "runpod"
    /\ sj.pc = "load_info"
    /\ \E ok \in BOOLEAN :
          /\ Outcome(ok)
          /\ sj' = IF ~ok THEN [sj EXCEPT !.pc = "except", !.failed = "model_info"]
                   ELSE IF hub.meta = "empty"
                     THEN Finally([sj EXCEPT !.ret = "false"])
                   ELSE IF hub.meta = "no_datasets"
                     THEN Finally([sj EXCEPT !.ret = "false", !.base_model = "set"])
                   ELSE IF hub.meta = "no_base_model"
                     THEN Finally([sj EXCEPT !.ret = "false", !.base_model = "None"])
                   ELSE [sj EXCEPT !.pc = "mark_running", !.base_model = "set"]
    /\ UNCHANGED <<progVars, hub, awsVars, clock>>

\* metadata_update(model_id, {...}, overwrite=True): the keys given are set;
\* error_details is the length of the message given, NULL when the key is not
metadata_update(h, status, started_at, completed_at, error_details) ==
    [h EXCEPT !.status = status,
              !.started_at = IF started_at # NULL THEN started_at ELSE @,
              !.completed_at = IF completed_at # NULL THEN completed_at ELSE @,
              !.error_details = IF error_details # NULL THEN error_details ELSE @]

\* runpod fine_tune, line 193: status running, inside the try block
RP_MarkRunning ==
    /\ program = "runpod"
    /\ sj.pc = "mark_running"
    /\ clock' = clock + 1
    /\ \E ok \in BOOLEAN :
          /\ Outcome(ok)
          /\ IF ok
                THEN /\ hub' = metadata_update(hub, "running", clock, NULL, NULL)
                     /\ SjGoto("download")
             ELSE /\ sj' = [sj EXCEPT !.pc = "except", !.failed = "status_write",
                                      !.wfault = TRUE]
                  /\ UNCHANGED hub
    /\ UNCHANGED <<progVars, awsVars>>

\* a step of the try block that returns or raises (dataset download, training,
\* the uploads)
SjStage(here, stage, next) ==
    /\ sj.pc = here
    /\ \E ok \in BOOLEAN :
          /\ Outcome(ok)
          /\ sj' = IF ok THEN [sj EXCEPT !.pc = next]
                   ELSE [sj EXCEPT !.pc = "except", !.failed = stage]
    /\ UNCHANGED <<progVars, hub, awsVars, clock>>

\* runpod fine_tune, lines 195-202
RP_Download == program = "runpod" /\ SjStage("download", "download", "load")

\* what follows the model load: training (runpod), or the dataset load and the
\* trainer set-up (unsloth)
AfterLoad == IF program = "runpod" THEN "train" ELSE "prepare"

\* lines 204-209 of runpod fine_tune, 166-172 of unsloth run: load the base
\* model if self.model is None. After `del self.model` the attribute is gone
\* and reading it raises AttributeError.
SjLoad ==
    /\ program \in {"runpod", "unsloth"}
    /\ sj.pc = "load"
    /\ IF sj.model = "deleted"
         THEN /\ sj' = [sj EXCEPT !.pc = "except", !.failed = "load"]
              /\ UNCHANGED faultsLeft
       ELSE IF sj.model = "resident"
         THEN /\ SjGoto(AfterLoad)
              /\ UNCHANGED faultsLeft
       ELSE \E ok \in BOOLEAN :
              /\ Outcome(ok)
              /\ sj' = IF ok THEN [sj EXCEPT !.pc = AfterLoad, !.model = "resident",
                                            !.tokenizer = "loaded", !.loads = @ + 1]
                       ELSE [sj EXCEPT !.pc = "except", !.failed = "load"]
    /\ UNCHANGED <<progVars, hub, awsVars, clock>>

\* runpod fine_tune, lines 211-261
RP_Train == program = "runpod" /\ SjStage("train", "train", "upload")

\* runpod fine_tune, lines 263-277
RP_Upload == program = "runpod" /\ SjStage("upload", "upload", "mark_completed")

\* runpod fine_tune, lines 279-286: status completed, inside the try block;
\* return True, then the finally clause
RP_MarkCompleted ==
    /\ program = "runpod"
    /\ sj.pc = "mark_completed"
    /\ clock' = clock + 1
    /\ \E ok \in BOOLEAN :
          /\ Outcome(ok)
          /\ IF ok
                THEN /\ hub' = metadata_update(hub, "completed", NULL, clock, NULL)
                     /\ sj' = Finally([sj EXCEPT !.ret = "true"])
             ELSE /\ sj' = [sj EXCEPT !.pc = "except", !.failed = "status_write",
                                      !.wfault = TRUE]
                  /\ UNCHANGED hub
    /\ UNCHANGED <<progVars, awsVars>>

\* runpod fine_tune, lines 288-298: the except clause writes status failed
\* with error_details str(e) (of any length), which may itself raise; return
\* False; then the finally clause
RP_Except ==
    /\ program = "runpod"
    /\ sj.pc = "except"
    /\ clock' = clock + 1
    /\ \E ok \in BOOLEAN, len \in MessageLengths :
          /\ Outcome(ok)
          /\ IF ok
                THEN /\ hub' = metadata_update(hub, "failed", NULL, clock, len)
                     /\ sj' = Finally([sj EXCEPT !.ret = "false"])
             ELSE /\ sj' = Finally([sj EXCEPT !.ret = "raised", !.wfault = TRUE])
                  /\ UNCHANGED hub
    /\ UNCHANGED <<progVars, awsVars>>

\* unsloth run, lines 129-146: ModelCard.load and the metadata checks
US_LoadCard ==
    /\ program = "unsloth"
    /\ sj.pc = "load_info"
    /\ \E ok \in BOOLEAN :
          /\ Outcome(ok)
          /\ sj' = IF ~ok THEN [sj EXCEPT !.pc = "except", !.failed = "card_load"]
                   ELSE LET p == [sj EXCEPT !.card = "bound", !.tags = hub.tags] IN
                        IF hub.meta = "empty"
                          THEN Finally([p EXCEPT !.ret = "false"])
                        ELSE IF hub.meta = "no_datasets"
                          THEN \* model_metadata.get("datasets")[0] raises
                               [p EXCEPT !.pc = "except", !.failed = "metadata"]
                        ELSE IF hub.meta = "no_base_model"
                          THEN Finally([p EXCEPT !.ret = "false",
                                                 !.base_model = "None"])
                        ELSE [p EXCEPT !.pc = "mark_loading", !.base_model = "set"]
    /\ UNCHANGED <<progVars, hub, awsVars, clock>>

\* the card's tags without the status:* tags
RemoveStatus(tags) == SelectSeq(tags, LAMBDA t : t.k # "status")

\* unsloth run: replace the status tag on the local card, add a timestamp tag,
\* push the card. The local card keeps the new tags when the push raises.
\* sj.statuses is the history of the statuses the run has tagged the card with.
US_Mark(here, status, stamp, next) ==
    /\ program = "unsloth"
    /\ sj.pc = here
    /\ clock' = clock + 1
    /\ LET tags == RemoveStatus(sj.tags) \o
                   <<Tag("status", status, NULL), Tag(stamp, "", clock)>> IN
       \E ok \in BOOLEAN :
          /\ Outcome(ok)
          /\ IF ok
                THEN /\ hub' = [hub EXCEPT !.tags = tags]
                     /\ sj' = IF status = "completed"
                                THEN Finally([sj EXCEPT !.tags = tags, !.ret = "true",
                                                        !.statuses = Append(@, status)])
                              ELSE [sj EXCEPT !.tags = tags, !.pc = next,
                                              !.statuses = Append(@, status)]
             ELSE /\ sj' = [sj EXCEPT !.tags = tags, !.pc = "except",
                                      !.statuses = Append(@, status),
                                      !.failed = "status_write", !.wfault = TRUE]
                  /\ UNCHANGED hub
    /\ UNCHANGED <<progVars, awsVars>>

\* unsloth run, lines 148-156
US_MarkLoading == US_Mark("mark_loading", "loading_model", "started_at", "load")

\* unsloth run, lines 174-210: load_dataset, the LoRA and trainer set-up
US_Prepare == program = "unsloth" /\ SjStage("prepare", "dataset", "mark_training")

\* unsloth run, lines 212-218
US_MarkTraining == US_Mark("mark_training", "training", "started_training_at", "train")

\* unsloth run, lines 220-222
US_Train == program = "unsloth" /\ SjStage("train", "train", "upload")

\* unsloth run, lines 224-242
US_Upload == program = "unsloth" /\ SjStage("upload", "upload", "mark_completed")

\* unsloth run, lines 244-254
US_MarkCompleted == US_Mark("mark_completed", "completed", "completed_at", "exited")

\* unsloth run, lines 256-273: the except clause tags the card failed, with
\* the whole of str(e) as error_details, and pushes it. When ModelCard.load
\* itself raised, `card` is unbound and the clause raises UnboundLocalError at
\* once.
US_Except ==
    /\ program = "unsloth"
    /\ sj.pc = "except"
    /\ IF sj.card = "unbound"
         THEN /\ sj' = Finally([sj EXCEPT !.ret = "raised"])
              /\ UNCHANGED <<hub, clock, faultsLeft>>
       ELSE /\ clock' = clock + 1
            /\ \E ok \in BOOLEAN, len \in MessageLengths :
               LET tags == RemoveStatus(sj.tags) \o
                           <<Tag("status", "failed", NULL),
                             ErrorDetailsTag(sj.failed, len),
                             Tag("completed_at", "", clock)>> IN
                  /\ Outcome(ok)
                  /\ IF ok
                        THEN /\ hub' = [hub EXCEPT !.tags = tags]
                             /\ sj' = Finally([sj EXCEPT !.tags = tags,
                                                         !.statuses = Append(@, "failed"),
                                                         !.ret = "false"])
                     ELSE /\ sj' = Finally([sj EXCEPT !.tags = tags,
                                                      !.statuses = Append(@, "failed"),
                                                      !.ret = "raised",
                                                      !.wfault = TRUE])
                          /\ UNCHANGED hub
    /\ UNCHANGED <<progVars, awsVars>>

\* ------------------------------------------------- the error handler
\* src/runpod/error_handler.py, run as a script after a training process
\* failed: program = "error_handler". The process is held in sj.

\* the card's tags without the status:* and error_details:* tags
RemoveStatusAndDetails(tags) ==
    SelectSeq(tags, LAMBDA t : t.k # "status" /\ t.k # "error_details")

\* update_model_status, lines 44-59: the tags the card is pushed with. The
\* error_details tag is left out for an empty or absent message, the
\* completed_at tag is added for status failed only.
eh_update_model_status(tags, status, what, error_message, now) ==
    RemoveStatusAndDetails(tags)
      \o <<Tag("status", status, NULL)>>
      \o (IF error_message # NULL
            THEN <<ErrorDetailsTag(what, Truncate(error_message, ErrorDetailsLimit))>>
          ELSE <<>>)
      \o (IF status = "failed" THEN <<Tag("completed_at", "", now)>> ELSE <<>>)

\* __main__, lines 74-86: MODEL_NAME is required; the message is argv[1] (of
\* any length, the empty string included) or "Training failed"
EH_Main ==
    /\ program = "error_handler"
    /\ sj.pc = "off"
    /\ \E model_name \in BOOLEAN, len \in MessageLengths \cup {NULL} :
          sj' = IF model_name
                  THEN [sj EXCEPT !.pc = "eh_update", !.error_message = len]
                ELSE [sj EXCEPT !.pc = "eh_exited", !.ret = "exit1"]
    /\ UNCHANGED <<progVars, hub, awsVars, clock, faultsLeft>>

\* __main__, line 89, and update_model_status(model_id, "failed", message),
\* lines 30-71: without HF_TOKEN nothing is done; ModelCard.load or
\* push_to_hub may raise, which is caught: the function returns False and the
\* card on the hub is as it was
EH_UpdateModelStatus ==
    /\ program = "error_handler"
    /\ sj.pc = "eh_update"
    /\ \E hf_token \in BOOLEAN, r \in {"ok", "load", "push"} :
          IF ~hf_token
            THEN /\ sj' = [sj EXCEPT !.pc = "eh_exited", !.ret = "false",
                                     !.failed = "no_token"]
                 /\ UNCHANGED <<hub, clock, faultsLeft>>
          ELSE /\ Outcome(r = "ok")
               /\ IF r = "load"
                    THEN /\ sj' = [sj EXCEPT !.pc = "eh_exited", !.ret = "false",
                                             !.failed = "card_load"]
                         /\ UNCHANGED <<hub, clock>>
                  ELSE LET tags == eh_update_model_status(hub.tags, "failed",
                                       "handler", sj.error_message, clock) IN
                       /\ clock' = clock + 1
                       /\ IF r = "push"
                            THEN /\ sj' = [sj EXCEPT !.pc = "eh_exited",
                                                     !.ret = "false", !.tags = tags,
                                                     !.failed = "status_write",
                                                     !.wfault = TRUE]
                                 /\ UNCHANGED hub
                          ELSE /\ sj' = [sj EXCEPT !.pc = "eh_exited",
                                                   !.ret = "true", !.tags = tags]
                               /\ hub' = [hub EXCEPT !.tags = tags]
    /\ UNCHANGED <<progVars, awsVars>>

ErrorHandlerStep ==
    \/ EH_Main
    \/ EH_UpdateModelStatus

SingleJobStep ==
    \/ Launch
    \/ RP_LoadInfo
    \/ RP_MarkRunning
    \/ RP_Download
    \/ SjLoad
    \/ RP_Train
    \/ RP_Upload
    \/ RP_MarkCompleted
    \/ RP_Except
    \/ US_LoadCard
    \/ US_MarkLoading
    \/ US_Prepare
    \/ US_MarkTraining
    \/ US_Train
    \/ US_Upload
    \/ US_MarkCompleted
    \/ US_Except

\* ---------------------------------------------------------- specification
ClientArgs == {"None", backend}

WorkerStep(w) ==
    \/ \E cf \in ClientArgs, sb \in ClientArgs : Construct(w, cf, sb)
    \/ MakeDirs(w)
    \/ RunStart(w)
    \/ Poll(w)
    \/ MarkRunning(w)
    \/ MarkTraining(w)
    \/ Download(w)
    \/ Load(w)
    \/ Train(w)
    \/ Upload(w)
    \/ MarkCompleted(w)
    \/ MarkReady(w)
    \/ MarkJobFailed(w)
    \/ MarkModelFailed(w)
    \/ Reset(w)
    \/ Ack(w)
    \/ Sleep(w)

Environment ==
    \/ \E body \in Bodies : Submit(body)
    \/ \E w \in Workers : AttachCfClient(w)

Started(w) == pc[w] \notin {"off", "new", "ValueError", "makedirs", "OSError",
                             "constructed"}

TypeOK ==
    /\ backend \in Backends
    /\ faultsLeft \in 0..MaxFaults
    /\ \A w \in Workers : client[w] \in {"unset", backend}
    /\ \A w \in Workers : cf_client[w] \in {"unset", backend}

\* the tags of a card whose earlier run failed and was reported by the error
\* handler with its default message
TagsOfFailedRun ==
    <<Tag("status", "failed", NULL), ErrorDetailsTag("handler", 15),
      Tag("completed_at", "", NULL)>>

\* the model's record on the hub before the worker runs: a card without tags,
\* a card created pending, or the card of a model that is run again after a
\* failed run
InitialHub == [meta : MetaKinds, status : {"pending"}, started_at : {NULL},
               completed_at : {NULL}, error_details : {NULL},
               tags : {<<>>, <<Tag("status", "pending", NULL)>>, TagsOfFailedRun}]
NoHub == [meta |-> "ok", status |-> "pending", started_at |-> NULL,
          completed_at |-> NULL, error_details |-> NULL, tags |-> <<>>]

\* one worker process; the second worker stays off
Init ==
    /\ program \in {"aws", "runpod", "unsloth", "error_handler"}
    /\ backend \in Backends
    /\ IF program = "aws" THEN hub = NoHub ELSE hub \in InitialHub
    /\ program # "aws" => backend = "supabase"
    /\ sj = FreshProcess
    /\ queue = [m \in MsgIds |-> EmptyMsg]
    /\ jobsTable = [m \in MsgIds |-> NoRow]
    /\ modelsTable = [m \in MsgIds |-> NoModelRow]
    /\ clock = 1
    /\ faultsLeft \in {0, MaxFaults}
    /\ pc = [w \in Workers |-> IF w = "w1" /\ program = "aws" THEN "new" ELSE "off"]
    /\ client = [w \in Workers |-> "unset"]
    /\ cf_client = [w \in Workers |-> "unset"]
    /\ models = [w \in Workers |-> {}]
    /\ tokenizers = [w \in Workers |-> {}]
    /\ cur = [w \in Workers |-> NoCur]
    /\ statusLog = [m \in MsgIds |-> <<>>]
    /\ ackCalls = [m \in MsgIds |-> 0]
    /\ training_params = NoParams
    /\ hyper = NoHyper
    /\ boot = [w \in Workers |-> NoBoot]
    /\ inf = NoInf
    /\ quit = NoQuit

Next ==
    \/ \E w \in Workers : WorkerStep(w)
    \/ Environment
    \/ SingleJobStep
    \/ ErrorHandlerStep

Spec == Init /\ [][Next]_vars

\* A process runs on: each worker keeps taking its next step (the sleep ends,
\* a blocking call returns or raises). Nothing is assumed of the environment.
Fairness == (\A w \in Workers : WF_vars(WorkerStep(w))) /\ WF_vars(SingleJobStep)

FairSpec == Spec /\ Fairness

\* The queue/table worker exactly as __init__ builds it: nothing assigns
\* self.cf_client, so the steps behind the first backend call are out of reach
\* and the worker's life is construct, run, poll, sleep.
AsBuiltStep(w) ==
    \/ \E cf \in ClientArgs, sb \in ClientArgs : Construct(w, cf, sb)
    \/ MakeDirs(w)
    \/ RunStart(w)
    \/ Poll(w)
    \/ Sleep(w)

NextAsBuilt ==
    \/ \E w \in Workers : AsBuiltStep(w)
    \/ \E body \in Bodies : Submit(body)

InitAsBuilt == Init /\ program = "aws"

SpecAsBuilt ==
    /\ InitAsBuilt
    /\ [][NextAsBuilt]_vars
    /\ \A w \in Workers : WF_vars(AsBuiltStep(w))


\* ----------------------------------------------- the status sink on its own
\* The clients' update_job_status and update_model_status called directly, with
\* any arguments, on rows in any condition: what a caller other than fine_tune
\* may do with them.
MaxClock == 3

JobStatuses == {"pending", "running", "completed", "failed"}
ModelStatuses == {"pending", "training", "ready", "failed"}
\* argument values: a timestamp or a URL, or none (None / the empty string)
Stamps == {NULL, 1, 2}
LogsUrls == {NULL, 1}
Urls == {NoUrl, AdapterUrl(1)}

SinkRest ==
    <<progVars, backend, queue, faultsLeft, pc, client, cf_client, models,
      tokenizers, cur, statusLog, ackCalls, hub, sj>>

CallUpdateJobStatus(job_id, status, logs_url, started_at, completed_at) ==
    /\ program = "clients"
    /\ jobsTable[job_id].status # "none"
    /\ jobsTable' = update_job_status(jobsTable, job_id, status, logs_url,
                                      started_at, completed_at)
    /\ UNCHANGED <<SinkRest, modelsTable, clock>>

CallUpdateModelStatus(model_id, status, lora_adapter_url) ==
    /\ program = "clients"
    /\ modelsTable[model_id].status # "none"
    /\ clock < MaxClock
    /\ clock' = clock + 1
    /\ modelsTable' = update_model_status(modelsTable, model_id, status,
                                          lora_adapter_url, clock)
    /\ UNCHANGED <<SinkRest, jobsTable>>

\* row 1 of each table in any condition, row 2 a fresh pending row
InitSink ==
    /\ program = "clients"
    /\ backend \in Backends
    /\ hub = NoHub
    /\ sj = FreshProcess
    /\ queue = [m \in MsgIds |-> EmptyMsg]
    /\ \E row \in [status : {"pending"}, logs_url : LogsUrls, started_at : {NULL, 1},
                    completed_at : {NULL, 1}] :
          jobsTable = [m \in MsgIds |-> IF m = 1 THEN row
                                        ELSE IF m = 2 THEN PendingJobRow ELSE NoRow]
    /\ \E row \in [status : {"pending"}, lora_adapter_url : Urls, updated_at : {NULL}] :
          modelsTable = [m \in MsgIds |-> IF m = 1 THEN row
                                          ELSE IF m = 2 THEN PendingModelRow
                                          ELSE NoModelRow]
    /\ clock = 1
    /\ faultsLeft = 0
    /\ pc = [w \in Workers |-> "off"]
    /\ client = [w \in Workers |-> "unset"]
    /\ cf_client = [w \in Workers |-> "unset"]
    /\ models = [w \in Workers |-> {}]
    /\ tokenizers = [w \in Workers |-> {}]
    /\ cur = [w \in Workers |-> NoCur]
    /\ statusLog = [m \in MsgIds |-> <<>>]
    /\ ackCalls = [m \in MsgIds |-> 0]
    /\ training_params = NoParams
    /\ hyper = NoHyper
    /\ boot = [w \in Workers |-> NoBoot]
    /\ inf = NoInf
    /\ quit = NoQuit

NextSink ==
    \/ \E status \in JobStatuses, l \in LogsUrls, s \in Stamps, c \in Stamps :
          CallUpdateJobStatus(1, status, l, s, c)
    \/ \E status \in ModelStatuses, url \in Urls :
          CallUpdateModelStatus(1, status, url)

SinkSpec == InitSink /\ [][NextSink]_vars

\* ------------------------------------------------ the model slot on its own
\* The service object's model slot used directly: acquire (the guarded load at
\* the top of fine_tune's try block) and release (reset_model) called in any
\* order, for any base model, on one service object. program = "slot_queue" is
\* the queue/table worker's FineTuningService, with the slot of worker w1;
\* "slot_single" is the single-job workers' FineTuningService, with sj.model.
\* cur.ret and sj.ret hold how the last call ended.
MaxCalls == 3

\* a faulty variant: the model is loaded whether or not it is resident
acquire_Always(toks, mods, base, r) ==
    LET res == load_base_model(toks, mods, base, r) IN
    [tokenizers |-> res.tokenizers, models |-> res.models, raised |-> res.raised,
     called |-> TRUE]

\* queue worker, fine_tune lines 475-477: `if base_model not in self.models:
\* self.load_base_model(base_model)`; `called` says whether load_base_model ran
acquire(toks, mods, base, r) ==
    IF base \in mods
      THEN [tokenizers |-> toks, models |-> mods, raised |-> FALSE, called |-> FALSE]
    ELSE LET res == load_base_model(toks, mods, base, r) IN
         [tokenizers |-> res.tokenizers, models |-> res.models,
          raised |-> res.raised, called |-> TRUE]

\* single-job workers, lines 204-206 (runpod) and 168-169 (unsloth): `if
\* self.model is None: self.load_base_model(base_model)`. Reading self.model
\* after `del self.model` raises AttributeError.
sj_acquire(model, ok) ==
    IF model = "deleted"
      THEN [model |-> model, raised |-> TRUE, called |-> FALSE]
    ELSE IF model = "resident"
      THEN [model |-> model, raised |-> FALSE, called |-> FALSE]
    ELSE [model |-> IF ok THEN "resident" ELSE model, raised |-> ~ok,
          called |-> TRUE]

\* single-job reset_model, line 104 (runpod) / 102 (unsloth): `if self.model is
\* not None` reads the attribute, which raises AttributeError once it is deleted
sj_reset_raises(model) == model = "deleted"

SlotAcquire(base) ==
    /\ program = "slot_queue"
    /\ cur["w1"].loads < MaxCalls
    /\ \E r \in {"ok", "tokenizer", "model"} :
          LET res == acquire(tokenizers["w1"], models["w1"], base, r) IN
          /\ tokenizers' = [tokenizers EXCEPT !["w1"] = res.tokenizers]
          /\ models' = [models EXCEPT !["w1"] = res.models]
          /\ SetCur("w1", [cur["w1"] EXCEPT
                 !.loads = IF res.called THEN @ + 1 ELSE @,
                 !.ret = IF res.raised THEN "raised"
                         ELSE IF res.called THEN "loaded" ELSE "reused"])
    /\ UNCHANGED <<spVars, backend, queue, sinkVars, faultsLeft, pc, objVars, ackCalls>>

SlotRelease(base) ==
    /\ program = "slot_queue"
    /\ cur["w1"].resets < MaxCalls
    /\ models' = [models EXCEPT !["w1"] = reset_model(@, base)]
    /\ SetCur("w1", [cur["w1"] EXCEPT !.resets = @ + 1, !.ret = "released"])
    /\ UNCHANGED <<spVars, backend, queue, sinkVars, faultsLeft, pc, objVars, tokenizers,
                   ackCalls>>

SjSlotAcquire ==
    /\ program = "slot_single"
    /\ sj.loads < MaxCalls
    /\ \E ok \in BOOLEAN :
          LET res == sj_acquire(sj.model, ok) IN
          sj' = [sj EXCEPT !.model = res.model,
                           !.tokenizer = IF res.called /\ ~res.raised THEN "loaded" ELSE @,
                           !.loads = IF res.called THEN @ + 1 ELSE @,
                           !.failed = IF ~res.raised THEN "none"
                                      ELSE IF res.called THEN "load"
                                      ELSE "AttributeError",
                           !.ret = IF res.raised THEN "raised"
                                   ELSE IF res.called THEN "loaded" ELSE "reused"]
    /\ UNCHANGED <<progVars, hub, awsVars, clock, faultsLeft>>

SjSlotRelease ==
    /\ program = "slot_single"
    /\ sj.resets < MaxCalls
    /\ sj' = IF sj_reset_raises(sj.model)
               THEN [sj EXCEPT !.resets = @ + 1, !.failed = "AttributeError",
                               !.ret = "raised"]
             ELSE [sj EXCEPT !.resets = @ + 1, !.model = sj_reset_model(@),
                             !.failed = "none", !.ret = "released"]
    /\ UNCHANGED <<progVars, hub, awsVars, clock, faultsLeft>>

InitSlot ==
    /\ program \in {"slot_queue", "slot_single"}
    /\ backend = "supabase"
    /\ hub = NoHub
    /\ sj = FreshProcess
    /\ queue = [m \in MsgIds |-> EmptyMsg]
    /\ jobsTable = [m \in MsgIds |-> NoRow]
    /\ modelsTable = [m \in MsgIds |-> NoModelRow]
    /\ clock = 1
    /\ faultsLeft = 0
    /\ pc = [w \in Workers |-> "off"]
    /\ client = [w \in Workers |-> "unset"]
    /\ cf_client = [w \in Workers |-> "unset"]
    /\ models = [w \in Workers |-> {}]
    /\ tokenizers = [w \in Workers |-> {}]
    /\ cur = [w \in Workers |-> NoCur]
    /\ statusLog = [m \in MsgIds |-> <<>>]
    /\ ackCalls = [m \in MsgIds |-> 0]
    /\ training_params = NoParams
    /\ hyper = NoHyper
    /\ boot = [w \in Workers |-> NoBoot]
    /\ inf = NoInf
    /\ quit = NoQuit

NextSlot ==
    \/ \E base \in BaseModels : SlotAcquire(base)
    \/ \E base \in BaseModels : SlotRelease(base)
    \/ SjSlotAcquire
    \/ SjSlotRelease

SlotSpec == InitSlot /\ [][NextSlot]_vars

\* ------------------------------------ the training parameters on their own
\* How each worker turns the job's training parameters into the arguments of
\* LoraConfig and TrainingArguments: program = "params_aws", "params_runpod",
\* "params_unsloth". The job record either has no training-parameters entry
\* or a dict holding any subset of the five parameters.
ParamNames == {"lora_rank", "lora_alpha", "epochs", "batch_size", "learning_rate"}

\* values a job may give a parameter (0 is a value, not an omission)
ParamValues == {0, 4}

\* the defaults written in the calls; the learning rate in units of 1e-5
DefaultLoraRank == 8
DefaultLoraAlpha == 16
DefaultBatchSize == 8
DefaultLearningRate == 2
DefaultEpochs == 3
DefaultEpochsUnsloth == 1

Dicts == UNION {[S -> ParamValues] : S \in SUBSET ParamNames}

\* dict.get(key, default)
Get(d, key, default) == IF key \in DOMAIN d THEN d[key] ELSE default

\* the keyword arguments of LoraConfig / get_peft_model (r, lora_alpha) and of
\* TrainingArguments (num_train_epochs, per_device_train_batch_size,
\* learning_rate), each training_params.get(name, default)
Hyperparameters(d, default_epochs) ==
    [lora_rank |-> Get(d, "lora_rank", DefaultLoraRank),
     lora_alpha |-> Get(d, "lora_alpha", DefaultLoraAlpha),
     epochs |-> Get(d, "epochs", default_epochs),
     batch_size |-> Get(d, "batch_size", DefaultBatchSize),
     learning_rate |-> Get(d, "learning_rate", DefaultLearningRate)]

Configured(d, default_epochs) ==
    [set |-> TRUE, raised |-> "none", values |-> Hyperparameters(d, default_epochs)]

\* queue/table worker, fine_tune line 451: job_data["training_params"], a
\* subscript, raises KeyError when the record has no such entry
aws_configure(tp) ==
    IF ~tp.present
      THEN [set |-> TRUE, raised |-> "KeyError", values |-> EmptyDict]
    ELSE Configured(tp.dict, DefaultEpochs)

\* runpod worker, fine_tune line 186: model_metadata.get("trainParams", {})
rp_configure(tp) ==
    Configured(IF tp.present THEN tp.dict ELSE EmptyDict, DefaultEpochs)

\* unsloth worker, run line 142: model_metadata.get("train_params", {})
us_configure(tp) ==
    Configured(IF tp.present THEN tp.dict ELSE EmptyDict, DefaultEpochsUnsloth)

ParamsRest ==
    <<program, training_params, backend, queue, jobsTable, modelsTable, clock,
      faultsLeft, pc, client, cf_client, models, tokenizers, cur, statusLog,
      ackCalls, hub, sj, boot, inf, quit>>

AwsConfigure ==
    /\ program = "params_aws"
    /\ ~hyper.set
    /\ hyper' = aws_configure(training_params)
    /\ UNCHANGED ParamsRest

RpConfigure ==
    /\ program = "params_runpod"
    /\ ~hyper.set
    /\ hyper' = rp_configure(training_params)
    /\ UNCHANGED ParamsRest

UsConfigure ==
    /\ program = "params_unsloth"
    /\ ~hyper.set
    /\ hyper' = us_configure(training_params)
    /\ UNCHANGED ParamsRest

InitParams ==
    /\ program \in {"params_aws", "params_runpod", "params_unsloth"}
    /\ training_params \in {NoParams} \cup [present : {TRUE}, dict : Dicts]
    /\ hyper = NoHyper
    /\ boot = [w \in Workers |-> NoBoot]
    /\ inf = NoInf
    /\ quit = NoQuit
    /\ backend = "supabase"
    /\ hub = NoHub
    /\ sj = FreshProcess
    /\ queue = [m \in MsgIds |-> EmptyMsg]
    /\ jobsTable = [m \in MsgIds |-> NoRow]
    /\ modelsTable = [m \in MsgIds |-> NoModelRow]
    /\ clock = 1
    /\ faultsLeft = 0
    /\ pc = [w \in Workers |-> "off"]
    /\ client = [w \in Workers |-> "unset"]
    /\ cf_client = [w \in Workers |-> "unset"]
    /\ models = [w \in Workers |-> {}]
    /\ tokenizers = [w \in Workers |-> {}]
    /\ cur = [w \in Workers |-> NoCur]
    /\ statusLog = [m \in MsgIds |-> <<>>]
    /\ ackCalls = [m \in MsgIds |-> 0]

NextParams ==
    \/ AwsConfigure
    \/ RpConfigure
    \/ UsConfigure

ParamsSpec == InitParams /\ [][NextParams]_vars

\* ------------------------------------------ two workers on one job source
\* Two worker processes of the queue/table worker, each constructed with a
\* SupabaseClient and inside run's loop, poll the same queue table. No backend
\* call fails here.
PoolStep(w) ==
    \/ Poll(w)
    \/ MarkRunning(w)
    \/ MarkTraining(w)
    \/ Download(w)
    \/ Load(w)
    \/ Train(w)
    \/ Upload(w)
    \/ MarkCompleted(w)
    \/ MarkReady(w)
    \/ Reset(w)
    \/ Ack(w)
    \/ Sleep(w)

InitPool ==
    /\ program = "aws"
    /\ backend = "supabase"
    /\ hub = NoHub
    /\ sj = FreshProcess
    /\ queue = [m \in MsgIds |-> EmptyMsg]
    /\ jobsTable = [m \in MsgIds |-> NoRow]
    /\ modelsTable = [m \in MsgIds |-> NoModelRow]
    /\ clock = 1
    /\ faultsLeft = 0
    /\ pc = [w \in Workers |-> "poll"]
    /\ client = [w \in Workers |-> backend]
    /\ cf_client = [w \in Workers |-> backend]
    /\ models = [w \in Workers |-> {}]
    /\ tokenizers = [w \in Workers |-> {}]
    /\ cur = [w \in Workers |-> NoCur]
    /\ statusLog = [m \in MsgIds |-> <<>>]
    /\ ackCalls = [m \in MsgIds |-> 0]
    /\ training_params = NoParams
    /\ hyper = NoHyper
    /\ boot = [w \in Workers |-> [NoBoot EXCEPT !.dirs = Dirs]]
    /\ inf = NoInf
    /\ quit = NoQuit

NextPool ==
    \/ \E w \in Workers : PoolStep(w)
    \/ \E body \in Bodies : Submit(body)

PoolSpec == InitPool /\ [][NextPool]_vars

\* ------------------------------------------------ the start of the worker
\* The queue/table worker from the start of the process: main reads the
\* credentials and constructs the service, or the service is constructed
\* directly with any arguments; then run's loop, as __init__ leaves the object.
NextStartup ==
    \/ \E w \in Workers : MainEnv(w)
    \/ NextAsBuilt

StartupSpec == InitAsBuilt /\ [][NextStartup]_vars

\* ---------------------------------------------------- the inference service
\* src/backend/aws/inference_service.py: program = "inference". The endpoints
\* are coroutines that never await, so requests are handled one at a time.
\* inf.db is the models table the service looks model details up in: per model
\* id the row's base model, or "absent"; inf.last is the last response.
InfModelIds == {"lora-a", "lora-b"}

\* the status codes of the responses
HttpOk == 200
HttpBadRequest == 400
HttpServerError == 500

\* the function f with key k set to v
Put(f, k, v) == [x \in DOMAIN f \cup {k} |-> IF x = k THEN v ELSE f[x]]

\* os.path.join(data_dir, "loras", model_id), the directory the adapter is
\* extracted to
LoraPath(model_id) == <<"loras", model_id>>

\* CloudflareClient.get_model_details: the row, ValueError when the query has
\* no row, whatever the request raised otherwise (response.json() raises a
\* ValueError subclass on a body that is no JSON)
get_model_details(db, model_id, r) ==
    IF r = "http_error" THEN [raised |-> "Exception", base_model |-> "None"]
    ELSE IF r = "bad_json" THEN [raised |-> "ValueError", base_model |-> "None"]
    ELSE IF db[model_id] = "absent"
      THEN [raised |-> "ValueError", base_model |-> "None"]
    ELSE [raised |-> "none", base_model |-> db[model_id]]

\* a faulty variant: the adapter is fetched and registered again even when
\* the model id is already in loaded_loras
provision_lora_Reload(s, model_id, r, downloaded) ==
    LET details == get_model_details(s.db, model_id, r) IN
    [service |-> [s EXCEPT !.lora_paths = Put(@, model_id, LoraPath(model_id)),
                          !.loaded_loras = Put(@, model_id,
                              [path |-> LoraPath(model_id),
                               base_model |-> details.base_model])],
     ret |-> "loaded", raised |-> "none", lookups |-> 1, downloads |-> 1]

\* a faulty variant: the path is stored before the adapter is downloaded, and
\* the base model is not compared with the instance's
provision_lora_PathFirst(s, model_id, r, downloaded) ==
    LET details == get_model_details(s.db, model_id, r)
        unchanged(raised, lookups, downloads) ==
            [service |-> [s EXCEPT !.lora_paths =
                              IF downloads = 1 THEN Put(@, model_id, LoraPath(model_id))
                              ELSE @],
             ret |-> "none", raised |-> raised,
             lookups |-> lookups, downloads |-> downloads] IN
    IF model_id \in DOMAIN s.loaded_loras
      THEN [service |-> s, ret |-> "already_loaded", raised |-> "none",
            lookups |-> 0, downloads |-> 0]
    ELSE IF details.raised # "none" THEN unchanged(details.raised, 1, 0)
    ELSE IF ~downloaded THEN unchanged("Exception", 1, 1)
    ELSE [service |-> [s EXCEPT !.lora_paths = Put(@, model_id, LoraPath(model_id)),
                                !.loaded_loras = Put(@, model_id,
                                    [path |-> LoraPath(model_id),
                                     base_model |-> details.base_model])],
          ret |-> "loaded", raised |-> "none", lookups |-> 1, downloads |-> 1]

\* InferenceService.provision_lora, lines 163-210: what it returns or raises,
\* the service after it, and the number of metadata lookups and adapter
\* downloads it made. r is how the lookup went, downloaded whether
\* download_lora_adapter returned.
provision_lora(s, model_id, r, downloaded) ==
    LET details == get_model_details(s.db, model_id, r)
        raise(raised, lookups, downloads) ==
            [service |-> s, ret |-> "none", raised |-> raised,
             lookups |-> lookups, downloads |-> downloads] IN
    IF model_id \in DOMAIN s.loaded_loras
      THEN [service |-> s, ret |-> "already_loaded", raised |-> "none",
            lookups |-> 0, downloads |-> 0]
    ELSE IF details.raised # "none" THEN raise(details.raised, 1, 0)
    ELSE IF details.base_model # s.base_model_type THEN raise("ValueError", 1, 0)
    ELSE IF ~downloaded THEN raise("Exception", 1, 1)
    ELSE [service |-> [s EXCEPT !.lora_paths = Put(@, model_id, LoraPath(model_id)),
                                !.loaded_loras = Put(@, model_id,
                                    [path |-> LoraPath(model_id),
                                     base_model |-> details.base_model])],
          ret |-> "loaded", raised |-> "none", lookups |-> 1, downloads |-> 1]

\* get_inference_service, lines 284-311: the service is built on the first
\* request that needs it, with no adapter loaded; InferenceService.__init__
\* (the directories, the LLM) may raise, and the request is answered 500
ServiceBuilt(s) == [s EXCEPT !.service = "ready"]

DependencyFailed(endpoint, model_id) ==
    [endpoint |-> endpoint, model_id |-> model_id, http |-> HttpServerError,
     ret |-> "none", raised |-> "dependency", lookups |-> 0, downloads |-> 0,
     generate_calls |-> 0]

\* POST /provision_lora, lines 331-345: ValueError is answered 400, any other
\* exception 500
ProvisionLoraEndpoint(model_id) ==
    /\ program = "inference"
    /\ \E built \in BOOLEAN, r \in {"ok", "http_error", "bad_json"},
          downloaded \in BOOLEAN :
          IF inf.service = "absent" /\ ~built
            THEN inf' = [inf EXCEPT !.last = DependencyFailed("provision_lora", model_id)]
          ELSE LET out == provision_lora(ServiceBuilt(inf), model_id, r, downloaded) IN
               inf' = [out.service EXCEPT !.last =
                          [endpoint |-> "provision_lora", model_id |-> model_id,
                           http |-> IF out.raised = "none" THEN HttpOk
                                    ELSE IF out.raised = "ValueError" THEN HttpBadRequest
                                    ELSE HttpServerError,
                           ret |-> out.ret, raised |-> out.raised,
                           lookups |-> out.lookups, downloads |-> out.downloads,
                           generate_calls |-> 0]]
    /\ UNCHANGED <<program, training_params, hyper, quit, boot, hub, sj, awsVars,
                   clock, faultsLeft>>

\* POST /inference, lines 347-365. The HTTPException for a model that is not
\* provisioned is raised inside the try block, whose `except Exception` clause
\* catches it (HTTPException is an Exception) and raises HTTPException(500).
\* run_inference calls llm.generate once, which may raise.
InferenceEndpoint(model_id) ==
    /\ program = "inference"
    /\ \E built \in BOOLEAN, generated \in BOOLEAN :
          IF inf.service = "absent" /\ ~built
            THEN inf' = [inf EXCEPT !.last = DependencyFailed("inference", model_id)]
          ELSE LET raised == IF model_id # "None" /\ model_id \notin DOMAIN inf.loaded_loras
                               THEN "HTTPException400"
                             ELSE IF ~generated THEN "Exception"
                             ELSE "none" IN
               inf' = [ServiceBuilt(inf) EXCEPT !.last =
                          [endpoint |-> "inference", model_id |-> model_id,
                           http |-> IF raised = "none" THEN HttpOk ELSE HttpServerError,
                           ret |-> IF raised = "none" THEN "response" ELSE "none",
                           raised |-> raised, lookups |-> 0, downloads |-> 0,
                           generate_calls |-> IF raised = "HTTPException400" THEN 0
                                              ELSE 1]]
    /\ UNCHANGED <<program, training_params, hyper, quit, boot, hub, sj, awsVars,
                   clock, faultsLeft>>

InitInference ==
    /\ program = "inference"
    /\ inf \in [service : {"absent"}, base_model_type : BaseModels,
                db : [InfModelIds -> {"absent"} \cup BaseModels],
                loaded_loras : {EmptyDict}, lora_paths : {EmptyDict},
                last : {[endpoint |-> "none"]}]
    /\ training_params = NoParams
    /\ hyper = NoHyper
    /\ boot = [w \in Workers |-> NoBoot]
    /\ quit = NoQuit
    /\ backend = "cloudflare"
    /\ hub = NoHub
    /\ sj = FreshProcess
    /\ queue = [m \in MsgIds |-> EmptyMsg]
    /\ jobsTable = [m \in MsgIds |-> NoRow]
    /\ modelsTable = [m \in MsgIds |-> NoModelRow]
    /\ clock = 1
    /\ faultsLeft = 0
    /\ pc = [w \in Workers |-> "off"]
    /\ client = [w \in Workers |-> "unset"]
    /\ cf_client = [w \in Workers |-> "unset"]
    /\ models = [w \in Workers |-> {}]
    /\ tokenizers = [w \in Workers |-> {}]
    /\ cur = [w \in Workers |-> NoCur]
    /\ statusLog = [m \in MsgIds |-> <<>>]
    /\ ackCalls = [m \in MsgIds |-> 0]

NextInference ==
    \/ \E model_id \in InfModelIds : ProvisionLoraEndpoint(model_id)
    \/ \E model_id \in InfModelIds \cup {"None"} : InferenceEndpoint(model_id)

InferenceSpec == InitInference /\ [][NextInference]_vars

\* ------------------------------------------------------ log_error_and_quit
\* src/backend/runpod/log_error_and_quit.py, run as a script:
\* program = "log_error_and_quit". quit.auto_terminate is the environment
\* variable AUTO_TERMINATE_ON_ERROR (a string of characters, or not set),
\* quit.metadata what the instance metadata service does when asked.
AutoTerminateValues ==
    {Unset} \cup [set : {TRUE},
                  value : {<<"t", "r", "u", "e">>, <<"T", "R", "U", "E">>,
                           <<"T", "r", "u", "e">>, <<"f", "a", "l", "s", "e">>,
                           <<"1">>, <<>>}]

\* os.environ.get(name, default)
environ_get(var, default) == IF var.set THEN var.value ELSE default

\* str.lower(), on the letters that occur
LowerChar(c) ==
    CASE c = "T" -> "t"
      [] c = "R" -> "r"
      [] c = "U" -> "u"
      [] c = "E" -> "e"
      [] OTHER -> c

Lower(s) == [i \in DOMAIN s |-> LowerChar(s[i])]

\* get_instance_id, lines 27-34: the text of the response, whatever it is,
\* or None when the request raised
get_instance_id(metadata) ==
    CASE metadata = "id" -> "i-0abc"
      [] metadata = "empty" -> ""
      [] OTHER -> "None"

\* a faulty variant: the instance is terminated whatever the environment says
ShouldTerminate_Always(instance_id, auto_terminate) ==
    instance_id \notin {"None", ""}

\* line 63: instance_id and
\* os.environ.get('AUTO_TERMINATE_ON_ERROR', 'true').lower() == 'true'
ShouldTerminate(instance_id, auto_terminate) ==
    /\ instance_id \notin {"None", ""}
    /\ Lower(environ_get(auto_terminate, <<"t", "r", "u", "e">>)) = <<"t", "r", "u", "e">>

QuitRest ==
    <<program, training_params, hyper, inf, boot, hub, sj, awsVars, clock, faultsLeft>>

\* lines 39-42: the message is the arguments joined, or "Unknown error"
QuitStart ==
    /\ program = "log_error_and_quit"
    /\ quit.pc = "off"
    /\ quit' = [quit EXCEPT !.pc = "write"]
    /\ UNCHANGED QuitRest

\* lines 45-58: the error details are written to a file; any exception is
\* logged and dropped
QuitWriteDetails ==
    /\ program = "log_error_and_quit"
    /\ quit.pc = "write"
    /\ \E ok \in BOOLEAN :
          quit' = [quit EXCEPT !.pc = "instance", !.details_written = ok,
                               !.raised = IF ok THEN @ ELSE "write"]
    /\ UNCHANGED QuitRest

\* line 62: instance_id = get_instance_id()
QuitGetInstanceId ==
    /\ program = "log_error_and_quit"
    /\ quit.pc = "instance"
    /\ quit' = [quit EXCEPT !.pc = "terminate",
                            !.instance_id = get_instance_id(quit.metadata)]
    /\ UNCHANGED QuitRest

\* lines 63-75: the EC2 client is created and terminate_instances is called,
\* either of which may raise; any exception is logged and dropped
QuitTerminate ==
    /\ program = "log_error_and_quit"
    /\ quit.pc = "terminate"
    /\ IF ShouldTerminate(quit.instance_id, quit.auto_terminate)
         THEN \E r \in {"ok", "client", "terminate"} :
                 quit' = [quit EXCEPT !.pc = "exit",
                                      !.terminate_requests =
                                          IF r = "client" THEN @ ELSE @ + 1,
                                      !.raised = IF r = "ok" THEN @ ELSE r]
       ELSE quit' = [quit EXCEPT !.pc = "exit"]
    /\ UNCHANGED QuitRest

\* line 78: sys.exit(1)
QuitExit ==
    /\ program = "log_error_and_quit"
    /\ quit.pc = "exit"
    /\ quit' = [quit EXCEPT !.pc = "exited", !.exit_code = 1]
    /\ UNCHANGED QuitRest

InitQuit ==
    /\ program = "log_error_and_quit"
    /\ quit \in [pc : {"off"}, auto_terminate : AutoTerminateValues,
                 metadata : {"id", "empty", "raises"}, argv : BOOLEAN,
                 details_written : {FALSE}, instance_id : {"unbound"},
                 terminate_requests : {0}, raised : {"none"}, exit_code : {NULL}]
    /\ inf = NoInf
    /\ training_params = NoParams
    /\ hyper = NoHyper
    /\ boot = [w \in Workers |-> NoBoot]
    /\ backend = "supabase"
    /\ hub = NoHub
    /\ sj = FreshProcess
    /\ queue = [m \in MsgIds |-> EmptyMsg]
    /\ jobsTable = [m \in MsgIds |-> NoRow]
    /\ modelsTable = [m \in MsgIds |-> NoModelRow]
    /\ clock = 1
    /\ faultsLeft = 0
    /\ pc = [w \in Workers |-> "off"]
    /\ client = [w \in Workers |-> "unset"]
    /\ cf_client = [w \in Workers |-> "unset"]
    /\ models = [w \in Workers |-> {}]
    /\ tokenizers = [w \in Workers |-> {}]
    /\ cur = [w \in Workers |-> NoCur]
    /\ statusLog = [m \in MsgIds |-> <<>>]
    /\ ackCalls = [m \in MsgIds |-> 0]

NextQuit ==
    \/ QuitStart
    \/ QuitWriteDetails
    \/ QuitGetInstanceId
    \/ QuitTerminate
    \/ QuitExit

\* the process runs on: each call returns or raises
QuitSpec == InitQuit /\ [][NextQuit]_vars /\ WF_vars(NextQuit)

\* ------------------------------------------------------------------ claims
IsPrefix(s, t) == Len(s) <= Len(t) /\ \A i \in 1..Len(s) : s[i] = t[i]

\* the stages of the queue/table worker's fine_tune try block
Stages == {"download", "load", "train", "upload"}

\* the stages of the single-job workers that are no status write
SjStages == {"model_info", "card_load", "metadata", "download", "dataset", "load",
             "train", "upload"}

\* the delivery a worker has finished with: it took a message and is back at
\* the loop's sleep
Finished(w) == pc[w] = "sleep" /\ cur[w].msg # NoMsg

\* the status:* tags of the model card on the hub
HubStatusTags == {hub.tags[i].v : i \in {j \in 1..Len(hub.tags) : hub.tags[j].k = "status"}}

\* C1: the ack (delete_job) is issued for a delivery only after fine_tune
\* returned True for it: a delivery whose processing failed at any stage, or
\* raised, is never acked.
C1_AckOnlyAfterSuccess ==
    \A w \in Workers :
        /\ (pc[w] = "ack" \/ cur[w].acks > 0) =>
               (cur[w].ret = "true" /\ cur[w].failed = "none")
        /\ cur[w].failed # "none" => (pc[w] # "ack" /\ cur[w].acks = 0)

\* a delivery failed at the upload and ended without an ack, after another
\* message had been acked
C1_Witness ==
    \E w \in Workers, m \in MsgIds :
        /\ Finished(w) /\ cur[w].failed = "upload" /\ cur[w].acks = 0
        /\ m # cur[w].msg /\ ackCalls[m] = 1

\* C2 (Scenario A): with a worker built by __init__ and started with run(), a
\* well-formed pending job and no failure anywhere, the job ends completed,
\* its model ready with an adapter URL, and the job acked exactly once.
C2_ScenarioA ==
    \A m \in MsgIds :
        (/\ Started("w1")
         /\ queue[m].state = "pending" /\ queue[m].missing = "none"
         /\ \A n \in MsgIds : n # m => queue[n].state = "absent"
         /\ faultsLeft = 0 /\ ackCalls[m] = 0)
        ~> (/\ jobsTable[JobId(m)].status = "completed"
            /\ modelsTable[ModelId(m)].status = "ready"
            /\ modelsTable[ModelId(m)].lora_adapter_url # NoUrl
            /\ ackCalls[m] = 1)

\* C3 (Scenario B): every step up to training succeeds, training raises and
\* the status writes go through: the job and the model end failed, the model
\* slot is empty and the delivery is not acked; when it is the job's first
\* delivery, as in the scenario, no ack was ever issued for the job. The same
\* for the unsloth worker, whose card ends tagged failed and whose model is
\* released.
C3_ScenarioB ==
    /\ \A w \in Workers :
          (Finished(w) /\ cur[w].failed = "train" /\ ~cur[w].wfault) =>
              /\ jobsTable[JobId(cur[w].msg)].status = "failed"
              /\ modelsTable[ModelId(cur[w].msg)].status = "failed"
              /\ models[w] = {}
              /\ cur[w].acks = 0
              /\ statusLog[JobId(cur[w].msg)] = <<"pending", "running", "failed">>
                    => ackCalls[cur[w].msg] = 0
    /\ (program = "unsloth" /\ sj.pc = "exited" /\ sj.failed = "train"
          /\ ~sj.wfault) =>
              /\ HubStatusTags = {"failed"}
              /\ sj.model # "resident"
              /\ sj.ret = "false"

\* training raised in a delivery whose model had been loaded, and the delivery
\* is over
C3_Witness ==
    \E w \in Workers :
        /\ Finished(w) /\ cur[w].failed = "train" /\ ~cur[w].wfault
        /\ cur[w].loads = 1 /\ cur[w].resets = 1

\* C4: the job statuses the worker writes for a job id are a prefix of
\* pending, running, completed or of pending, running, failed, over any
\* sequence of deliveries and redeliveries.
C4_StatusMonotonic ==
    \A m \in MsgIds :
        \/ IsPrefix(statusLog[JobId(m)], <<"pending", "running", "completed">>)
        \/ IsPrefix(statusLog[JobId(m)], <<"pending", "running", "failed">>)

\* C5: for every job taken from the job source reset_model is called exactly
\* once, whichever stage fails or none, and afterwards no base model is
\* resident; the same for the one job of the runpod worker.
C5_ResetExactlyOnce ==
    /\ \A w \in Workers :
          Finished(w) => (cur[w].resets = 1 /\ models[w] = {})
    /\ (program = "runpod" /\ sj.pc = "exited") =>
          (sj.resets = 1 /\ sj.model # "resident")

\* C6: every job the worker takes has a terminal status written by the end of
\* its processing: failed (job and model) when anything went wrong, the job
\* record itself included, completed otherwise. Runs in which a status write
\* itself failed are left aside; the unsloth worker's status is the status
\* tag of the model card.
C6_TerminalStatusWritten ==
    /\ \A w \in Workers :
          (Finished(w) /\ ~cur[w].wfault) =>
              IF cur[w].failed = "none"
                THEN jobsTable[JobId(cur[w].msg)].status = "completed"
              ELSE /\ jobsTable[JobId(cur[w].msg)].status = "failed"
                   /\ modelsTable[ModelId(cur[w].msg)].status = "failed"
    /\ (program = "unsloth" /\ sj.pc = "exited" /\ ~sj.wfault) =>
          HubStatusTags = (IF sj.ret = "true" THEN {"completed"} ELSE {"failed"})

\* C7: the polling loop never ends because of a job: whatever was raised while
\* fetching or processing, the worker polls the job source again.
C7_LoopContinues ==
    \A w \in Workers :
        (Started(w) /\ pc[w] # "poll") ~> (pc[w] = "poll")

\* the worker is back at the poll after an exception that reached the loop
C7_Witness ==
    \E w \in Workers :
        pc[w] = "poll" /\ cur[w].msg # NoMsg /\ cur[w].failed = "KeyError"

\* C8: a poll whose backend call fails is handled like a poll of an empty
\* queue: nothing is raised, no job is taken, no status is written, and the
\* worker goes to its sleep.
C8_FailedPollIsEmptyPoll ==
    [][\A w \in Workers :
          (pc[w] = "poll" /\ pc'[w] # "poll" /\ faultsLeft' < faultsLeft) =>
              /\ pc'[w] = "sleep"
              /\ cur'[w] = [NoCur EXCEPT !.poll = "error"]
              /\ UNCHANGED <<queue, sinkVars, slotVars, ackCalls>>]_vars

\* a poll failed while a message was pending, and the worker sleeps
C8_Witness ==
    \E w \in Workers :
        /\ pc[w] = "sleep" /\ cur[w].poll = "error"
        /\ \E m \in PendingMsgs(queue) : statusLog[JobId(m)] = <<"pending">>

\* C9 (Scenario C): a poll that finds no job writes no status, fetches no
\* dataset, loads no model and acks nothing; the worker sleeps and then polls
\* again.
C9_EmptyPoll ==
    [][\A w \in Workers :
          /\ (pc[w] = "poll" /\ pc'[w] # "poll" /\ cur'[w].poll = "empty") =>
                  /\ pc'[w] = "sleep"
                  /\ cur'[w].msg = NoMsg
                  /\ UNCHANGED <<queue, sinkVars, slotVars, ackCalls, faultsLeft>>
          /\ (pc[w] = "sleep" /\ pc'[w] # "sleep") =>
                  /\ pc'[w] = "poll"
                  /\ UNCHANGED <<queue, sinkVars, slotVars, ackCalls, cur>>]_vars

\* the worker polled an empty source, slept and is at the poll again
C9_Witness ==
    \E w \in Workers : pc[w] = "poll" /\ cur[w].poll = "empty"

\* C10: with dataset fetch, model load, training and publish all successful, a
\* status write that fails does not change the outcome: the run still returns
\* True, and in the queue worker the job is acked.
C10_StatusWriteNeverFailsJob ==
    /\ \A w \in Workers :
          (Finished(w) /\ cur[w].failed \notin Stages \cup {"KeyError"}) =>
              (cur[w].ret = "true" /\ cur[w].acks = 1)
    /\ (sj.pc = "exited" /\ hub.meta = "ok" /\ sj.failed \notin SjStages) =>
          sj.ret = "true"

\* C11: after a job's processing ends, completed_at is recorded if and only if
\* the job's status is completed or failed, and it is later than started_at.
\* Deliveries in which a status write itself failed are left aside.
C11_CompletedAtIffTerminal ==
    \A w \in Workers :
        (Finished(w) /\ ~cur[w].wfault) =>
            LET row == jobsTable[JobId(cur[w].msg)] IN
            /\ (row.completed_at # NULL) <=> (row.status \in {"completed", "failed"})
            /\ row.completed_at # NULL => row.completed_at > row.started_at

\* the last job status the worker issued for a job id was applied to its row
LastWriteApplied(j) ==
    Len(statusLog[j]) > 0 /\ jobsTable[j].status = statusLog[j][Len(statusLog[j])]

\* C12: over any sequence of deliveries and redeliveries a job's started_at is
\* written at most once and its completed_at at most once, and completed_at
\* is written only while the job's recorded status is running (the case in
\* which the running write itself was lost is left aside).
C12_TimestampsWrittenOnce ==
    [][\A m \in MsgIds :
          LET old == jobsTable[JobId(m)]
              new == jobsTable'[JobId(m)] IN
          /\ new.started_at # old.started_at => old.started_at = NULL
          /\ new.completed_at # old.completed_at =>
                /\ old.completed_at = NULL
                /\ LastWriteApplied(JobId(m)) => old.status = "running"]_vars

\* C13: update_job_status and update_model_status change only the status and
\* the fields passed with a value: an omitted logs_url, started_at,
\* completed_at or lora_adapter_url keeps its stored value, updated_at is
\* refreshed, and no other row is touched. Stated of the rows as they stand
\* in every reachable state of the sink, for every argument combination.
C13_PartialUpdates ==
    /\ \A j \in {m \in MsgIds : jobsTable[m].status # "none"},
          status \in JobStatuses, l \in LogsUrls, s \in Stamps, c \in Stamps :
          LET t == update_job_status(jobsTable, j, status, l, s, c) IN
          /\ t[j].status = status
          /\ t[j].logs_url = IF l = NULL THEN jobsTable[j].logs_url ELSE l
          /\ t[j].started_at = IF s = NULL THEN jobsTable[j].started_at ELSE s
          /\ t[j].completed_at = IF c = NULL THEN jobsTable[j].completed_at ELSE c
          /\ \A k \in MsgIds \ {j} : t[k] = jobsTable[k]
    /\ \A j \in {m \in MsgIds : modelsTable[m].status # "none"},
          status \in ModelStatuses, url \in Urls :
          LET t == update_model_status(modelsTable, j, status, url, clock) IN
          /\ t[j].status = status
          /\ t[j].lora_adapter_url =
                IF url = NoUrl THEN modelsTable[j].lora_adapter_url ELSE url
          /\ t[j].updated_at = clock
          /\ \A k \in MsgIds \ {j} : t[k] = modelsTable[k]

\* calls have been made on rows holding every optional field, and the fields
\* are still there
C13_Witness ==
    /\ program = "clients"
    /\ jobsTable[1].status = "failed" /\ jobsTable[1].logs_url # NULL
    /\ jobsTable[1].started_at = 1 /\ jobsTable[1].completed_at = 2
    /\ modelsTable[1].status = "failed"
    /\ modelsTable[1].lora_adapter_url # NoUrl
    /\ modelsTable[1].updated_at # NULL

\* C14: in every reachable state of the status sink a model whose status is
\* ready has a non-empty lora_adapter_url.
C14_ReadyHasAdapterUrl ==
    \A m \in MsgIds :
        modelsTable[ModelId(m)].status = "ready" =>
            modelsTable[ModelId(m)].lora_adapter_url # NoUrl

\* a model has been marked ready by the worker
C14_Witness ==
    \E w \in Workers :
        /\ Finished(w) /\ cur[w].ret = "true"
        /\ modelsTable[ModelId(cur[w].msg)].status = "ready"

\* C15: the worker writes a model's lora_adapter_url only in the write that
\* sets the status to ready after a successful publish; the training and
\* failed writes leave it unchanged.
C15_UrlOnlyWithReady ==
    [][\A m \in MsgIds :
          modelsTable'[ModelId(m)].lora_adapter_url
                # modelsTable[ModelId(m)].lora_adapter_url =>
              /\ modelsTable'[ModelId(m)].status = "ready"
              /\ \E w \in Workers :
                    /\ pc[w] = "mark_ready" /\ cur[w].msg = m
                    /\ cur[w].failed = "none"
                    /\ cur[w].adapter_url = modelsTable'[ModelId(m)].lora_adapter_url]_vars

\* a model that had been made ready was delivered again, and the training (or
\* failed) write left its URL in place
C15_Witness ==
    \E m \in MsgIds :
        /\ modelsTable[ModelId(m)].status \in {"training", "failed"}
        /\ modelsTable[ModelId(m)].lora_adapter_url = AdapterUrl(ModelId(m))

\* C16: in every reachable state of a worker at most one base model is
\* resident, and a job that names base model Y never finds a different model
\* X resident when it loads or trains: X was released before. For the
\* single-job workers: the model trained on was loaded by this run.
C16_OneResidentModel ==
    /\ \A w \in Workers :
          /\ Cardinality(models[w]) <= 1
          /\ pc[w] = "load" => models[w] \subseteq {queue[cur[w].msg].base_model}
          /\ pc[w] \in {"train", "upload"} =>
                models[w] = {queue[cur[w].msg].base_model}
    /\ (sj.pc \in {"prepare", "mark_training", "train"}) =>
          (sj.model = "resident" /\ sj.loads = 1)

\* a job naming base-13b trains on a worker that had served base-7b before
C16_Witness ==
    \E w \in Workers :
        /\ pc[w] = "train" /\ queue[cur[w].msg].base_model = "base-13b"
        /\ "base-7b" \in tokenizers[w]
        /\ models[w] = {"base-13b"}

\* C17: acquiring the same base model twice in succession with no release in
\* between performs exactly one underlying load: from any condition of the
\* slot, a first acquire that succeeds followed by a second acquire of the
\* same model calls load_base_model at most once in all, exactly once when
\* the model was not resident, and the second acquire changes nothing.
C17_AcquireTwiceLoadsOnce ==
    /\ program = "slot_queue" =>
          \A base \in BaseModels, r1 \in {"ok", "tokenizer", "model"},
             r2 \in {"ok", "tokenizer", "model"} :
             LET a1 == acquire(tokenizers["w1"], models["w1"], base, r1)
                 a2 == acquire(a1.tokenizers, a1.models, base, r2) IN
             ~a1.raised =>
                /\ a1.called <=> base \notin models["w1"]
                /\ ~a2.called /\ ~a2.raised
                /\ a2.models = a1.models /\ a2.tokenizers = a1.tokenizers
    /\ program = "slot_single" =>
          \A ok1 \in BOOLEAN, ok2 \in BOOLEAN :
             LET a1 == sj_acquire(sj.model, ok1)
                 a2 == sj_acquire(a1.model, ok2) IN
             ~a1.raised =>
                /\ a1.called <=> sj.model = "None"
                /\ ~a2.called /\ ~a2.raised /\ a2.model = a1.model

\* the slot was acquired, then acquired again for the same model: one load
C17_Witness ==
    /\ program = "slot_queue"
    /\ cur["w1"].ret = "reused" /\ cur["w1"].loads = 1 /\ cur["w1"].resets = 0
    /\ Cardinality(models["w1"]) = 1

\* C18 (Scenario D): when two consecutive jobs name the same base model, the
\* slot is released after the first and the second performs a fresh load:
\* every delivery that reaches training has loaded its model itself, also on
\* a worker that has served the same base model before, and every finished
\* delivery leaves the slot empty.
C18_FreshLoadPerJob ==
    \A w \in Workers :
        /\ pc[w] \in {"train", "upload", "mark_completed", "mark_ready"} =>
              cur[w].loads = 1
        /\ (Finished(w) /\ cur[w].failed \in Stages \cup {"none"}) =>
              (models[w] = {} /\ cur[w].resets = 1)

\* two jobs naming the same base model were both completed, and the second
\* delivery loaded the model itself
C18_Witness ==
    \E w \in Workers :
        /\ Finished(w) /\ cur[w].msg = 2 /\ cur[w].failed = "none"
        /\ cur[w].loads = 1
        /\ queue[1].base_model = queue[2].base_model
        /\ jobsTable[JobId(1)].status = "completed"
        /\ jobsTable[JobId(2)].status = "completed"
        /\ ackCalls[1] = 1

\* C19: reset_model is safe when the slot is empty: called on a slot that was
\* never loaded, or again after a previous release, it raises nothing and
\* leaves the slot empty and usable for a later acquire.
C19_ReleaseSafeWhenEmpty ==
    /\ program = "slot_queue" =>
          \A base \in BaseModels \ models["w1"] :
             /\ reset_model(models["w1"], base) = models["w1"]
             /\ ~acquire(tokenizers["w1"], reset_model(models["w1"], base),
                         base, "ok").raised
    /\ program = "slot_single" =>
          /\ sj.failed # "AttributeError"
          /\ sj.model # "resident" =>
                /\ ~sj_reset_raises(sj.model)
                /\ ~sj_acquire(sj_reset_model(sj.model), TRUE).raised

\* C20: after upload_model returns or raises, the temporary archive it made
\* no longer exists, whether the upload succeeded or failed.
C20_ArchiveRemoved ==
    \A w \in Workers :
        (cur[w].failed = "upload" \/ cur[w].adapter_url # NoUrl) => ~cur[w].archive

\* the error_details:* tags of the model card on the hub
HubErrorDetails ==
    {hub.tags[i] : i \in {j \in 1..Len(hub.tags) : hub.tags[j].k = "error_details"}}

\* C21: whenever a job fails the failure message is stored with the failed
\* status, and every error detail in the status sink, written by a worker's
\* failure path or by the error handler, is at most 100 characters long.
C21_ErrorDetailsBounded ==
    /\ \A t \in HubErrorDetails : t.n <= ErrorDetailsLimit
    /\ hub.error_details <= ErrorDetailsLimit
    /\ (program = "unsloth" /\ HubStatusTags = {"failed"}) =>
          \E t \in HubErrorDetails : t.n > 0
    /\ (program = "runpod" /\ hub.status = "failed") => hub.error_details # NULL
    /\ (program = "error_handler" /\ sj.ret = "true"
          /\ sj.error_message # NULL) =>
          \E t \in HubErrorDetails :
              t.n = Truncate(sj.error_message, ErrorDetailsLimit)

\* the last job status the worker issued for the job of w's delivery
LastIssued(w) ==
    LET log == statusLog[JobId(cur[w].msg)] IN
    IF Len(log) = 0 THEN "none" ELSE log[Len(log)]

\* w's delivery is on the success path: a job was taken and nothing failed
OnSuccessPath(w) == cur[w].msg # NoMsg /\ cur[w].failed = "none"

C23_LoadAfterDataset ==
    /\ \A w \in Workers :
          (pc[w] \in {"mark_running", "mark_training", "download"}
             \/ cur[w].failed = "download") => cur[w].loads = 0
    /\ (sj.pc \in {"mark_running", "download"}
          \/ sj.failed \in {"download", "dataset"}) => sj.loads = 0

\* C24: with the SupabaseClient as job source, a job whose processing failed
\* is recorded failed and a later get_next_job does not return it: once the
\* failed delivery is over the row is no longer the one get_next_job selects,
\* and no delivery starts for a job for which failed was written. Deliveries
\* in which a status write itself failed are left aside.
C24_FailedNotRedelivered ==
    \A w \in Workers :
        cf_client[w] = "supabase" =>
            /\ (Finished(w) /\ cur[w].failed \in Stages /\ ~cur[w].wfault) =>
                  /\ jobsTable[JobId(cur[w].msg)].status = "failed"
                  /\ cur[w].msg \notin get_next_job("supabase", queue, TRUE)
            /\ pc[w] = "mark_running" =>
                  \A i \in 1..Len(statusLog[JobId(cur[w].msg)]) :
                      statusLog[JobId(cur[w].msg)][i] # "failed"

\* C25: within one worker at most one job is in progress: whenever the
\* worker is back at the loop's sleep or at the poll after taking a job, that
\* job's terminal status writes have been issued and the model slot has been
\* released, once.
C25_OneJobInProgress ==
    \A w \in Workers :
        (pc[w] \in {"sleep", "poll"} /\ cur[w].msg # NoMsg) =>
            /\ cur[w].ret \in {"true", "false"}
            /\ LastIssued(w) \in {"completed", "failed"}
            /\ cur[w].resets = 1

\* the number of tags of a card with key k
CountTags(tags, k) == Cardinality({i \in 1..Len(tags) : tags[i].k = k})

\* C26: after every status update pushed to the model card, by the unsloth
\* worker or by the error handler, the card carries exactly one status:* tag
\* and no error_details:* tag of an earlier update: an error_details tag, if
\* any, is the one this update appended after its status tag.
C26_OneStatusNoStaleDetails ==
    [][hub'.tags # hub.tags =>
          /\ CountTags(hub'.tags, "status") = 1
          /\ CountTags(hub'.tags, "error_details") <= 1
          /\ \A i \in 1..Len(hub'.tags) :
                hub'.tags[i].k = "error_details" =>
                    \E j \in 1..(i - 1) : hub'.tags[j].k = "status"]_vars

\* the statuses of a run with finer-grained progress, in order
FineGrained == <<"running", "loading_model", "training">>

\* C27: the statuses the unsloth worker writes for a job follow running,
\* loading_model, training, then completed or failed, none skipped or
\* reordered: running comes before loading_model, and training is written
\* only after the model load succeeded. Runs in which a push of the card
\* itself failed are left aside.
C27_FineGrainedOrder ==
    (program = "unsloth" /\ ~sj.wfault) =>
        /\ \/ IsPrefix(sj.statuses, FineGrained \o <<"completed">>)
           \/ \E k \in 0..Len(FineGrained) :
                 sj.statuses = SubSeq(FineGrained, 1, k) \o <<"failed">>
        /\ (\E i \in 1..Len(sj.statuses) : sj.statuses[i] = "training") =>
              sj.loads = 1

\* the default of a parameter in the variant that runs
DefaultOf(name) ==
    CASE name = "lora_rank" -> 8
      [] name = "lora_alpha" -> 16
      [] name = "batch_size" -> 8
      [] name = "learning_rate" -> 2
      [] name = "epochs" -> IF program = "params_unsloth" THEN 1 ELSE 3

\* C28: once the training is configured, each training parameter the job
\* does not give has its default (lora_rank 8, lora_alpha 16, batch_size 8,
\* learning_rate 2e-5, epochs 3, or 1 in the unsloth worker), each parameter
\* given is passed through unchanged, and a job record without any
\* training-parameters entry is configured with all defaults: nothing is
\* raised.
C28_DefaultsAndPassThrough ==
    hyper.set =>
        /\ hyper.raised = "none"
        /\ \A name \in ParamNames :
              hyper.values[name] =
                  IF training_params.present /\ name \in DOMAIN training_params.dict
                    THEN training_params.dict[name]
                  ELSE DefaultOf(name)

\* C29: SupabaseClient.get_next_job returns the pending row created first,
\* or None when no row is pending; delete_job does not delete the row but
\* sets its status to processed and touches no other row, and from then on
\* get_next_job does not return that row: it stays processed and a worker
\* only ever takes a pending row. (A query that fails returns None as well.)
C29_OldestPendingThenProcessed ==
    [][backend = "supabase" =>
          /\ \A ok \in BOOLEAN :
                LET job == get_next_job("supabase", queue, ok) IN
                /\ Cardinality(job) <= 1
                /\ \A m \in job :
                      /\ queue[m].state = "pending"
                      /\ \A n \in MsgIds : queue[n].state = "pending" => m <= n
                /\ ok => (job = {} <=> \A n \in MsgIds : queue[n].state # "pending")
          /\ \A m \in MsgIds :
                queue[m].state # "absent" =>
                    LET q == delete_job("supabase", queue, m) IN
                    /\ q[m].state = "processed"
                    /\ \A n \in MsgIds \ {m} : q[n] = queue[n]
                    /\ m \notin get_next_job("supabase", q, TRUE)
          /\ \A m \in MsgIds :
                queue[m].state = "processed" => queue'[m].state = "processed"
          /\ \A w \in Workers :
                (pc[w] = "poll" /\ pc'[w] # "poll" /\ cur'[w].msg # NoMsg) =>
                    /\ queue[cur'[w].msg].state = "pending"
                    /\ \A n \in MsgIds :
                          queue[n].state = "pending" => cur'[w].msg <= n]_vars

\* the first row was acked and is processed, and the worker has taken the
\* second row
C29_Witness ==
    \E w \in Workers :
        /\ cf_client[w] = "supabase"
        /\ queue[1].state = "processed" /\ ackCalls[1] = 1
        /\ pc[w] = "mark_running" /\ cur[w].msg = 2

\* C30, as stated: whenever the worker acks a job, the status sink records at
\* that moment the job as completed and its model as ready with an adapter
\* URL, also in runs in which status writes fail.
C30_AckImpliesRecordedDone ==
    \A w \in Workers :
        pc[w] = "ack" =>
            /\ jobsTable[JobId(cur[w].msg)].status = "completed"
            /\ modelsTable[ModelId(cur[w].msg)].status = "ready"
            /\ modelsTable[ModelId(cur[w].msg)].lora_adapter_url # NoUrl

\* C30, as the code has it: whenever the worker acks a job, the completed
\* write and then the ready write, with the adapter URL of the upload, have
\* been issued for it; the sink records the job completed and the model ready
\* with that URL when no status write of the delivery failed. A status write
\* that fails is logged by the client and does not keep the ack from
\* happening.
C30_AckAfterStatusWritesIssued ==
    \A w \in Workers :
        (pc[w] = "ack" \/ cur[w].acks > 0) =>
            /\ LastIssued(w) = "completed"
            /\ cur[w].ret = "true"
            /\ cur[w].adapter_url = AdapterUrl(ModelId(cur[w].msg))
            /\ ~cur[w].wfault =>
                  /\ jobsTable[JobId(cur[w].msg)].status = "completed"
                  /\ modelsTable[ModelId(cur[w].msg)].status = "ready"
                  /\ modelsTable[ModelId(cur[w].msg)].lora_adapter_url
                        = cur[w].adapter_url

\* the worker is about to ack a job whose completed write was lost: the sink
\* still shows the job running
C30_Witness ==
    \E w \in Workers :
        /\ pc[w] = "ack" /\ cur[w].wfault
        /\ jobsTable[JobId(cur[w].msg)].status = "running"
        /\ modelsTable[ModelId(cur[w].msg)].status = "ready"

\* the delivery a worker is processing: it took a job and has not yet come
\* back to the loop's sleep
Processing(w) == cur[w].msg # NoMsg /\ pc[w] \notin {"poll", "sleep"}

\* C31: with two workers polling the same table-backed job source, no job is
\* being processed by both at once: while one worker is processing a job,
\* get_next_job in the other has not returned the same job.
C31_NoJobTakenTwice ==
    backend = "supabase" =>
        \A v \in Workers, w \in Workers :
            (v # w /\ Processing(v) /\ Processing(w)) => cur[v].msg # cur[w].msg

\* C32: in the single-job workers (runpod fine_tune, unsloth run), when the
\* model's metadata is missing, lacks a dataset or a base model, or cannot be
\* read at all, the call returns False (it does not raise) and no model was
\* loaded, so no training took place.
C32_MissingMetadataReturnsFalse ==
    (/\ program \in {"runpod", "unsloth"}
     /\ sj.pc = "exited"
     /\ hub.meta # "ok" \/ sj.failed \in {"model_info", "card_load"})
        => sj.ret = "false" /\ sj.loads = 0

\* C33: in the model-hub variant the model card carries at most one
\* completed_at:* tag once a job has ended: after the unsloth worker's run,
\* and after error_handler.update_model_status(model, "failed") has run on a
\* card whose failure was already recorded.
C33_OneCompletedAtTag ==
    (\/ program = "unsloth" /\ sj.pc = "exited"
     \/ program = "error_handler" /\ sj.pc = "eh_exited")
        => CountTags(hub.tags, "completed_at") <= 1

\* __init__ has been called and its arguments are still bound (the call is
\* under way, or it raised)
Called(w) == boot[w].cloudflare_client # "unbound"

\* exactly one of the two arguments of __init__ is a client
ExactlyOne(w) ==
    (boot[w].cloudflare_client # "None") # (boot[w].supabase_client # "None")

\* C34: the queue/table worker's FineTuningService is constructed only with
\* exactly one backend client. A call with both clients or with neither ends
\* in ValueError, with no directory created, self.client not set and no job
\* polled; a call with exactly one does not raise ValueError. When main finds
\* the backend credentials missing, the process gets no further than that
\* ValueError.
C34_ExactlyOneClient ==
    \A w \in Workers :
        /\ (Called(w) /\ ~ExactlyOne(w)) =>
              /\ pc[w] = "ValueError"
              /\ boot[w].dirs = {}
              /\ client[w] = "unset"
              /\ cur[w] = NoCur
        /\ (Called(w) /\ ExactlyOne(w)) =>
              /\ pc[w] \in {"makedirs", "OSError"}
              /\ client[w] = backend
        /\ pc[w] = "ValueError" => Called(w) /\ ~ExactlyOne(w)
        /\ pc[w] \notin {"off", "new", "ValueError"} => client[w] = backend
        /\ boot[w].credentials = "missing" =>
              /\ pc[w] \in {"new", "ValueError"}
              /\ boot[w].dirs = {}
              /\ cur[w] = NoCur

\* main found the credentials missing and the constructor raised ValueError
C34_Witness ==
    \E w \in Workers :
        /\ pc[w] = "ValueError"
        /\ boot[w].credentials = "missing"
        /\ boot[w].cloudflare_client = "None"
        /\ boot[w].supabase_client = "None"

\* the step is a call of provision_lora for model_id that the service (built,
\* if need be, for this request) has carried out
Provisioning(model_id) ==
    /\ inf'.last.endpoint = "provision_lora"
    /\ inf'.last.model_id = model_id
    /\ inf'.last.raised # "dependency"

\* C35: provision_lora is idempotent per model id: once a model id has been
\* provisioned, every later provision_lora call for it returns status
\* already_loaded, makes no metadata lookup and no adapter download, and
\* leaves loaded_loras and lora_paths unchanged.
C35_ProvisionIdempotent ==
    [][\A model_id \in InfModelIds :
          (Provisioning(model_id) /\ model_id \in DOMAIN inf.loaded_loras) =>
              /\ inf'.last.raised = "none"
              /\ inf'.last.ret = "already_loaded"
              /\ inf'.last.lookups = 0
              /\ inf'.last.downloads = 0
              /\ inf'.loaded_loras = inf.loaded_loras
              /\ inf'.lora_paths = inf.lora_paths]_vars

\* a provisioned model id was provisioned again
C35_Witness ==
    /\ inf.last.endpoint = "provision_lora"
    /\ inf.last.ret = "already_loaded"
    /\ inf.last.model_id \in DOMAIN inf.loaded_loras

\* loaded_loras and lora_paths hold the same model ids, and every adapter in
\* them was trained on the instance's base model
LorasConsistent(s) ==
    /\ DOMAIN s.loaded_loras = DOMAIN s.lora_paths
    /\ \A id \in DOMAIN s.loaded_loras :
          /\ s.loaded_loras[id].base_model = s.base_model_type
          /\ s.loaded_loras[id].path = s.lora_paths[id]

\* C36: a provision_lora call that fails raises and leaves loaded_loras and
\* lora_paths exactly as they were; it fails whenever the model is not found
\* or its base model is not the instance's, and whenever the lookup or the
\* download raises; and in every reachable state loaded_loras and lora_paths
\* have the same model ids, each with the instance's base model.
C36_FailedProvisionChangesNothing ==
    /\ []LorasConsistent(inf)
    /\ [][\A model_id \in InfModelIds :
            Provisioning(model_id) =>
               /\ inf'.last.raised # "none" =>
                     /\ inf'.last.ret = "none"
                     /\ inf'.loaded_loras = inf.loaded_loras
                     /\ inf'.lora_paths = inf.lora_paths
               /\ (/\ model_id \notin DOMAIN inf.loaded_loras
                   /\ inf.db[model_id] # inf.base_model_type)
                     => /\ inf'.last.raised \in {"ValueError", "Exception"}
                        /\ inf'.last.downloads = 0
               /\ inf'.last.raised = "none" =>
                     /\ inf'.last.ret \in {"loaded", "already_loaded"}
                     /\ model_id \in DOMAIN inf'.loaded_loras
                     /\ inf.db[model_id] = inf.base_model_type]_vars

\* with an adapter loaded, a provision_lora call failed in the download
C36_Witness ==
    /\ inf.last.endpoint = "provision_lora"
    /\ inf.last.raised = "Exception"
    /\ inf.last.downloads = 1
    /\ inf.last.model_id \notin DOMAIN inf.loaded_loras
    /\ DOMAIN inf.loaded_loras # {}

\* C37: the /inference endpoint, when the request names a model_id that has
\* not been provisioned, responds with HTTP status 400 and does not run the
\* generation.
C37_UnprovisionedIs400 ==
    (/\ inf.last.endpoint = "inference"
     /\ inf.last.raised # "dependency"
     /\ inf.last.model_id # "None"
     /\ inf.last.model_id \notin DOMAIN inf.loaded_loras)
        => /\ inf.last.http = HttpBadRequest
           /\ inf.last.generate_calls = 0

\* C38: log_error_and_quit always ends by exiting the process with code 1,
\* whether or not writing the error details or terminating the instance
\* failed; and it sends an EC2 termination request only when an instance id
\* was obtained and AUTO_TERMINATE_ON_ERROR, in whatever letter case, is
\* 'true', which it is taken to be when unset.
C38_AlwaysExitsOne ==
    /\ <>(quit.pc = "exited")
    /\ [](quit.pc = "exited" => quit.exit_code = 1)
    /\ [](quit.terminate_requests > 0 =>
            /\ quit.metadata = "id"
            /\ quit.instance_id = "i-0abc"
            /\ \/ ~quit.auto_terminate.set
               \/ quit.auto_terminate.value \in {<<"t", "r", "u", "e">>,
                                                <<"T", "R", "U", "E">>,
                                                <<"T", "r", "u", "e">>})
    /\ [](quit.terminate_requests <= 1)

\* the process has exited after both the write of the error details and the
\* termination request raised, with AUTO_TERMINATE_ON_ERROR unset
C38_Witness ==
    /\ quit.pc = "exited"
    /\ quit.exit_code = 1
    /\ ~quit.details_written
    /\ quit.raised = "terminate"
    /\ quit.terminate_requests = 1
    /\ ~quit.auto_terminate.set

====
